---- MODULE Spec2Model ----
(***************************************************************************)
(* Telemetry fusion and health-state engine of the shore-side collector    *)
(* (src/hmi/backend/app/main.py): message ingestion with live/simulated    *)
(* source arbitration, the sensor and system health state machines, the    *)
(* simulation-control boundary and the replay scheduler.                   *)
(*                                                                         *)
(* Spec       ingestion + health + simulation control, on a coarse clock.  *)
(* SpecReplay the replay session and its asyncio scheduling loop.          *)
(***************************************************************************)
EXTENDS Integers, Sequences, FiniteSets, TLC

(***************************************************************************)
(* Bounds of the model.                                                    *)
(***************************************************************************)
\* A behaviour ingests at most MaxInputs messages and control commands.
MaxInputs == 5
\* A behaviour starts at most MaxSessions replay sessions, and the monotonic
\* clock, which reads MonoStart at the first observation, advances at most
\* MaxMonoSteps seconds.
MaxSessions == 2
MonoStart == 10
MaxMonoSteps == 2
\* seconds of wall-clock time that pass while a recording is made
MaxSeconds == 1
\* messages the MQTT thread ingests next to the Broadcaster
MaxIngested == 2
\* steps of the recorder before its file is replayed
MaxRecorded == MaxInputs - 1
\* the latest sample time of the GPS simulator, in ticks of half a nanosecond
MaxSimTime == 3
\* 1e-9 s (gps_sim.py lines 503 and 520), in ticks
Tolerance == 2

(***************************************************************************)
(* JSON / Python values.  A value is None, a finite number, a non-finite   *)
(* float (NaN, Infinity; json.loads accepts both), or a value of another   *)
(* type (a non-numeric string).                                            *)
(***************************************************************************)
NoneV == [t |-> "none"]
NaNV == [t |-> "nan"]
InfV == [t |-> "inf"]
StrV == [t |-> "str"]
Num(n) == [t |-> "num", v |-> n]
\* the radian value of an angle of d degrees (math.radians keeps the angle)
Rad(d) == [t |-> "rad", deg |-> d]
\* a float computed by a formula the model does not evaluate
Derived(f, args) == [t |-> f, a |-> args]

IsNone(x) == x.t = "none"
\* isinstance(x, (int, float))
IsNumber(x) == x.t \in {"num", "nan", "inf"}

(***************************************************************************)
(* Topics (main.py 96-107).                                                *)
(***************************************************************************)
TOPIC_SENSOR_GPS == "sensor/gps"
TOPIC_SENSOR_IMU == "sensor/imu"
TOPIC_SENSOR_BATTERY == "sensor/battery"
TOPIC_SIM_GPS == "sim/gps"
TOPIC_SIM_IMU == "sim/imu"
TOPIC_SIM_BATTERY == "sim/battery"
TOPIC_SENSOR_TRACK == "sensor/track"
TOPIC_SENSOR_RADAR == "sensor/radar"
TOPIC_PROCESSED_RADAR == "processed/radar"

\* Health timeout in seconds (the literal 10 of the tick and of the stop rule).
HEALTH_TIMEOUT == 10

\* the association tolerances and the lifetime of a radar track (lines 115-118)
TRACK_DISTANCE_MAX == 5
TRACK_BEARING_MAX == 5
TRACK_HEADING_MAX == 5
TRACK_TIMEOUT == 5

\* One step of the clock: an elapsed time of one step is exactly the timeout
\* (not yet timed out), of two steps is beyond it.
TimeStep == HEALTH_TIMEOUT
MaxTime == TimeStep + TimeStep

VARIABLES
  now,                      \* time.time(), seconds
  NAV_STATE,                \* STATE, the NavigationState (STATE is a TLA+ keyword)
  SENSOR_STATES,
  SYSTEM_STATE,
  _IMU_LAST_VALID,
  _GPS_LAST_VALID,
  _BASELINE_STATE,
  _BASELINE_LAST_TS,
  LAST_MESSAGE_TIME,
  ESP32_LAST_MESSAGE_TIME,
  SENSOR_IMU_LAST_TIME,
  SENSOR_GPS_LAST_TIME,
  SIM_GPS_ACTIVE,
  SIM_IMU_ACTIVE,
  _prev_gps,
  _prev_imu_ts,
  _est_velocity,
  _est_heading,
  _radar_tracks_internal,
  inputs,                   \* messages and commands ingested so far
  last,                     \* history: the operation that produced this state
  REPLAY_ACTIVE,
  REPLAY_PAUSED,
  REPLAY_TOPICS,            \* a set of topics; {} stands for None (all topics)
  REPLAY_FILE,
  REPLAY_TASK,              \* index into tasks; 0 stands for None
  REPLAY_START_MONO,
  REPLAY_BASE_TS,
  REPLAY_MESSAGES,
  REPLAY_COUNT,
  REPLAY_IDX,
  mono,                     \* time.monotonic(), seconds
  tasks,                    \* the asyncio tasks created for _replay_runner
  ready,                    \* the event loop's FIFO of callbacks ready to run
  running,                  \* the task the event loop is executing; 0 if none
  draining,                 \* the loop is part-way through a batch of ready callbacks
  published,                \* history: the MQTT_CLIENT.publish calls of the replayer
  stopped,                  \* history: stop was called since the last successful start
  restarted,                \* history: the last start found the earlier loop waiting
  paused_in,                \* history: session in which an unanswered pause took hold
  anchor,                   \* history: time.monotonic() when the newest loop started
  elapsed,                  \* history: clock ticks off pause since the loop last moved on
  ever_paused,              \* history: a pause took hold since the last successful start
  RECORDING_ACTIVE,
  RECORDING_PAUSED,
  RECORDING_TOPICS,         \* a set of topics; {} stands for None (all topics)
  RECORDING_BUFFER,
  RECORDING_FILE,           \* the name below SHARED_DIR; "None" stands for None
  RECORDING_START_TS,
  RECORDING_COUNT,
  disk,                     \* the files of SHARED_DIR
  arrivals,                 \* history: the messages handed to _on_message since the
                            \* last recording start
  flushed,                  \* history: the file the session of arrivals wrote at stop
  WEBSOCKETS,               \* the observers connected
  results,                  \* the tick in flight: the outcome of each delivery
  data,                     \* the tick in flight: the snapshot built at line 513
  delivered,                \* history: what each observer received last
  handling,                 \* the message the MQTT thread is part-way through
  starting,                 \* the simulation start the control task is part-way through
  stopping,                 \* the recording stop the event loop is part-way through
  neom8n,                   \* the NEOM8N object of the GPS simulator, a process of its own
  instants                  \* history: the shared state between two ingested messages

navVars == <<NAV_STATE, _prev_gps, _prev_imu_ts, _est_velocity, _est_heading,
            _radar_tracks_internal>>
healthVars == <<SENSOR_STATES, _IMU_LAST_VALID, _GPS_LAST_VALID>>
liveTimeVars == <<ESP32_LAST_MESSAGE_TIME, SENSOR_IMU_LAST_TIME, SENSOR_GPS_LAST_TIME>>
simVars == <<SIM_GPS_ACTIVE, SIM_IMU_ACTIVE, _BASELINE_STATE, _BASELINE_LAST_TS>>
engineVars == <<now, navVars, healthVars, liveTimeVars, simVars, SYSTEM_STATE,
                LAST_MESSAGE_TIME, last>>

engineState == <<now, navVars, healthVars, liveTimeVars, simVars, SYSTEM_STATE,
                 LAST_MESSAGE_TIME>>
sessionVars == <<REPLAY_ACTIVE, REPLAY_PAUSED, REPLAY_TOPICS, REPLAY_FILE, REPLAY_TASK,
                 REPLAY_START_MONO, REPLAY_BASE_TS, REPLAY_MESSAGES, REPLAY_COUNT,
                 REPLAY_IDX>>
loopVars == <<tasks, ready, running, draining>>
replayHistory == <<published, stopped, restarted, paused_in, anchor, ever_paused, elapsed>>
replayVars == <<sessionVars, loopVars, mono, replayHistory>>

recordingVars == <<RECORDING_ACTIVE, RECORDING_PAUSED, RECORDING_TOPICS, RECORDING_BUFFER,
                   RECORDING_FILE, RECORDING_START_TS, RECORDING_COUNT>>
recorderVars == <<recordingVars, disk, arrivals, flushed>>

ingestVars == <<handling, instants, starting, stopping, neom8n>>
observerVars == <<WEBSOCKETS, results, data, delivered, ingestVars>>

vars == <<engineVars, inputs, replayVars, recorderVars, observerVars>>

SensorStateNames == {"Not initialized", "Running", "Degraded", "Unavailable", "Simulated"}

(***************************************************************************)
(* Payloads.  kind is "obj" for a JSON object, "nonobj" for JSON that is   *)
(* not an object, "nojson" for text json.loads rejects, "notutf8" for bytes *)
(* that are not UTF-8.  In an object the                                   *)
(* field ts is None (absent), Num(t) (an ISO-8601 string for epoch second  *)
(* t) or StrV (a string fromisoformat rejects).                            *)
(***************************************************************************)
NoPayload == [kind |-> "none"]
NonObject == [kind |-> "nonobj"]
NotJson == [kind |-> "nojson"]
NotUtf8 == [kind |-> "notutf8"]

GpsPayload(lat, lon, speed, cog, fix, hdop, su, sv, ts) ==
  [kind |-> "obj", lat |-> lat, lon |-> lon, speed |-> speed, cog |-> cog,
   fix |-> fix, hdop |-> hdop, sats_used |-> su, sats_in_view |-> sv, ts |-> ts]

ImuPayload(ax, ay, az, gx, gy, gz, mx, my, mz, ts) ==
  [kind |-> "obj", ax |-> ax, ay |-> ay, az |-> az, gx |-> gx, gy |-> gy, gz |-> gz,
   mx |-> mx, my |-> my, mz |-> mz, ts |-> ts]

BatteryPayload(soc, ts) == [kind |-> "obj", soc |-> soc, ts |-> ts]

\* a call of NEOM8N.sample
SampleCall(t, motion_provider) ==
  [kind |-> "sample", t |-> t, motion_provider |-> motion_provider]

StatusPayload(wifi_rssi, wifi_quality, ts) ==
  [kind |-> "obj", wifi_rssi |-> wifi_rssi, wifi_quality |-> wifi_quality, ts |-> ts]

\* a point detection, and a track list sent bare (kind "list") or under the
\* key tracks of an object; in an entry of the list a field is None when the
\* key is absent
TrackPayload(distance, bearing, heading) ==
  [kind |-> "obj", distance |-> distance, bearing |-> bearing, heading |-> heading]
RadarList(tracks) == [kind |-> "list", tracks |-> tracks]
RadarObject(tracks) == [kind |-> "obj", tracks |-> tracks]

\* history record: the operation, its topic or control verb, its payload, how
\* the handler ended, and the sensor states it started from
Event(op, arg, payload, result) ==
  [op |-> op, arg |-> arg, payload |-> payload, result |-> result,
   before |-> SENSOR_STATES]

(***************************************************************************)
(* Pure helpers of the handlers.                                           *)
(***************************************************************************)
\* _parse_ts: a missing or unparseable timestamp defaults to the receipt time
_parse_ts(ts) == IF ts.t = "num" THEN ts.v ELSE now

\* max(0.0, float(LAST_MESSAGE_TIME - ts)), LAST_MESSAGE_TIME just set to now
Latency(ts) == Num(IF now - ts > 0 THEN now - ts ELSE 0)

\* float(x) inside try/except: the field is written only when float() succeeds
FloatOrKeep(x, old) == IF IsNone(x) \/ x.t = "str" THEN old ELSE x

\* int(x) inside try/except: int() of NaN, of an infinity or of a non-numeric
\* string raises, and the field keeps its value
IntOrKeep(x, old) == IF x.t = "num" THEN x ELSE old

\* radians(float(x)) inside try/except
RadiansOrKeep(x, old) ==
  IF IsNone(x) \/ x.t = "str" THEN old
  ELSE IF x.t = "num" THEN Rad(x.v) ELSE x

\* spd_knots * 0.514444, in micro-metres per second
KnotsToMps(x) == IF x.t = "num" THEN Num(x.v * 514444) ELSE x

\* math.radians / math.sin / math.cos on the arguments of _haversine: a
\* non-number raises TypeError, an infinity raises ValueError (math domain
\* error) except that two infinite longitudes of the same sign give a NaN
\* difference
HaversineRaises(lat1, lon1, lat2, lon2) ==
  \/ \E i \in 1..4 : ~IsNumber(<<lat1, lon1, lat2, lon2>>[i])
  \/ lat1.t = "inf" \/ lat2.t = "inf"
  \/ (lon1.t = "inf") # (lon2.t = "inf")

_haversine(lat1, lon1, lat2, lon2) ==
  IF \E i \in 1..4 : <<lat1, lon1, lat2, lon2>>[i].t # "num" THEN NaNV
  ELSE Derived("haversine", <<lat1.v, lon1.v, lat2.v, lon2.v>>)

_bearing(lat1, lon1, lat2, lon2) ==
  IF \E i \in 1..4 : <<lat1, lon1, lat2, lon2>>[i].t # "num" THEN NaNV
  ELSE Derived("bearing", <<lat1.v, lon1.v, lat2.v, lon2.v>>)

\* dist / dt
SpeedOver(dist, dt) == IF dist.t = "nan" THEN NaNV ELSE Derived("div", <<dist.a, dt>>)

\* _is_num(x) and float(x) != 0.0
CoordOk(x) == x.t = "num" /\ x.v # 0

\* validity of a live position message (main.py 302-314)
GpsValid(p) ==
  /\ CoordOk(p.lat)
  /\ CoordOk(p.lon)
  /\ ~IsNone(p.fix)
  /\ ~IsNone(p.hdop)
  /\ ~IsNone(p.sats_used)

HealthOf(valid) == IF valid THEN "Running" ELSE "Degraded"
PyBool(b) == IF b THEN "True" ELSE "False"

\* a faulty arbitration that only ever drops live messages
GpsGatedLiveOnly(topic) == topic = TOPIC_SENSOR_GPS /\ SIM_GPS_ACTIVE

\* source arbitration (main.py 236 and 320): the message is of the origin the
\* sensor's gate does not select
GpsGated(topic) ==
  \/ topic = TOPIC_SENSOR_GPS /\ SIM_GPS_ACTIVE
  \/ topic = TOPIC_SIM_GPS /\ ~SIM_GPS_ACTIVE

ImuGated(topic) ==
  \/ topic = TOPIC_SENSOR_IMU /\ SIM_IMU_ACTIVE
  \/ topic = TOPIC_SIM_IMU /\ ~SIM_IMU_ACTIVE

(***************************************************************************)
(* Attitude arithmetic.  Angles are kept in degrees inside Rad(_); the     *)
(* trigonometry is exact on axis-aligned and diagonal arguments, which is  *)
(* where the inputs of the specifications lie, and an uninterpreted term   *)
(* elsewhere.                                                              *)
(***************************************************************************)
Abs(n) == IF n < 0 THEN -n ELSE n

\* math.atan2(y, x) of two finite numbers
Atan2V(y, x) ==
  IF y = 0 THEN (IF x >= 0 THEN Rad(0) ELSE Rad(180))
  ELSE IF x = 0 THEN (IF y > 0 THEN Rad(90) ELSE Rad(-90))
  ELSE IF Abs(x) = Abs(y)
       THEN Rad(IF y > 0 THEN (IF x > 0 THEN 45 ELSE 135)
                ELSE (IF x > 0 THEN -45 ELSE -135))
       ELSE Derived("atan2", <<y, x>>)

Neg(a) ==
  IF a.t = "rad" THEN Rad(-a.deg)
  ELSE IF a.t = "nan" THEN a ELSE Derived("neg", a)

\* -atan2(ay, az)
RollOf(ay, az) ==
  IF ay.t = "nan" \/ az.t = "nan" THEN NaNV
  ELSE IF ay.t = "num" /\ az.t = "num" THEN Neg(Atan2V(ay.v, az.v))
  ELSE Derived("roll", <<ay, az>>)

\* -atan2(-ax, sqrt(ay * ay + az * az))
PitchOf(ax, ay, az) ==
  IF ax.t = "nan" \/ ay.t = "nan" \/ az.t = "nan" THEN NaNV
  ELSE IF ax.t = "num" /\ ay.t = "num" /\ az.t = "num"
       THEN IF ax.v = 0 THEN Rad(0)
            ELSE IF ay.v = 0 /\ az.v = 0 THEN Rad(IF ax.v > 0 THEN 90 ELSE -90)
            ELSE Derived("pitch", <<ax, ay, az>>)
       ELSE Derived("pitch", <<ax, ay, az>>)

IsRightAngle(a) == a.t = "rad" /\ a.deg % 90 = 0
CosDeg(d) == CASE d % 360 = 0 -> 1 [] d % 360 = 180 -> -1 [] OTHER -> 0
SinDeg(d) == CASE d % 360 = 90 -> 1 [] d % 360 = 270 -> -1 [] OTHER -> 0

\* ax_lin * dt with ax_lin = ax - (-g * sin(pitch)), g = 9.80665, in units of
\* 1e-5 m/s
AxLinDt(ax, pitch, dt) ==
  IF ax.t # "num" THEN ax
  ELSE IF pitch.t = "nan" THEN NaNV
  ELSE IF IsRightAngle(pitch)
       THEN Num((ax.v * 100000 + 980665 * SinDeg(pitch.deg)) * dt)
       ELSE Derived("ax_lin_dt", <<ax.v, pitch, dt>>)

\* _est_velocity += ax_lin * dt
AddVelocity(v, d) ==
  IF v.t = "nan" \/ d.t = "nan" THEN NaNV
  ELSE IF v.t = "num" /\ d.t = "num" THEN Num(v.v + d.v)
  ELSE IF v.t = "inf" \/ d.t = "inf" THEN InfV
  ELSE Derived("est_velocity", <<v, d>>)

\* (_est_heading - gz * dt) % (2 * pi), gz = radians(payload gz)
IntegrateHeading(h, gz, dt) ==
  IF h.t = "rad" /\ gz.t = "num" THEN Rad((h.deg - gz.v * dt) % 360) ELSE NaNV

\* tilt-compensated heading (main.py 372-378), % (2 * pi)
HeadingTc(mx, my, mz, roll, pitch) ==
  IF \E i \in 1..5 : <<mx, my, mz, roll, pitch>>[i].t = "nan" THEN NaNV
  ELSE IF mx.t = "num" /\ my.t = "num" /\ mz.t = "num"
          /\ IsRightAngle(roll) /\ IsRightAngle(pitch)
       THEN LET y == my.v * CosDeg(roll.deg) - mz.v * SinDeg(roll.deg)
                x == mx.v * CosDeg(pitch.deg)
                     + my.v * SinDeg(roll.deg) * SinDeg(pitch.deg)
                     + mz.v * CosDeg(roll.deg) * SinDeg(pitch.deg)
                a == Atan2V(y, x)
            IN  IF a.t = "rad" THEN Rad(a.deg % 360) ELSE a
       ELSE Derived("heading_tc", <<mx, my, mz, roll, pitch>>)

\* IMU_HEADING_OFFSET_RAD = -(pi / 2) and IMU_MIRROR_EAST_WEST = True:
\* h = _wrap2pi(heading + offset); h = _wrap2pi(-h)
LiveHeadingCorrection(h) ==
  IF h.t = "rad" THEN Rad((-((h.deg - 90) % 360)) % 360)
  ELSE IF h.t = "nan" THEN h ELSE Derived("corrected", h)

\* validity of a live attitude message (main.py 398-402)
ImuValid(p) == \A i \in 1..6 : <<p.ax, p.ay, p.az, p.gx, p.gy, p.gz>>[i].t = "num"

(***************************************************************************)
(* _on_message (main.py 206-459), position topics.                         *)
(***************************************************************************)
\* lines 242-316: the fields, the previous fix and the health of the sensor, once
\* the gate is passed and the last-live times are stamped
apply_gps(topic, p) ==
  LET live == topic = TOPIC_SENSOR_GPS
      ts == _parse_ts(p.ts)
      spd == KnotsToMps(p.speed)
      \* lines 252-272
      S1 == [NAV_STATE EXCEPT !.latitude = p.lat, !.longitude = p.lon,
                              !.gps_fix_quality = p.fix,
                              !.hdop = FloatOrKeep(p.hdop, @),
                              !.sats_used = IntOrKeep(p.sats_used, @),
                              !.sats_in_view = IntOrKeep(p.sats_in_view, @)]
      \* lines 273-288
      S2 == [S1 EXCEPT !.true_speed = spd, !.latency = Latency(ts),
                       !.cog = RadiansOrKeep(p.cog, @)]
      \* lines 290-292
      derive == ~IsNone(_prev_gps) /\ ts - _prev_gps.ts > 0
      dist == _haversine(_prev_gps.lat, _prev_gps.lon, p.lat, p.lon)
      \* lines 294-297
      S3 == [S2 EXCEPT !.cog = IF IsNone(p.cog)
                               THEN _bearing(_prev_gps.lat, _prev_gps.lon, p.lat, p.lon)
                               ELSE @,
                       !.true_speed = IF IsNone(spd)
                                      THEN SpeedOver(dist, ts - _prev_gps.ts)
                                      ELSE @]
  IN  CASE p.kind # "obj" ->
             \* payload.get raises AttributeError
             /\ UNCHANGED <<NAV_STATE, _prev_gps, SENSOR_STATES, _GPS_LAST_VALID>>
             /\ last' = Event("msg", topic, p, "raised")
        [] p.kind = "obj" /\ p.speed.t = "str" ->
             \* spd_knots * 0.514444 raises TypeError
             /\ NAV_STATE' = S1
             /\ UNCHANGED <<_prev_gps, SENSOR_STATES, _GPS_LAST_VALID>>
             /\ last' = Event("msg", topic, p, "raised")
        [] p.kind = "obj" /\ p.speed.t # "str" /\ derive
             /\ HaversineRaises(_prev_gps.lat, _prev_gps.lon, p.lat, p.lon) ->
             /\ NAV_STATE' = S2
             /\ UNCHANGED <<_prev_gps, SENSOR_STATES, _GPS_LAST_VALID>>
             /\ last' = Event("msg", topic, p, "raised")
        [] OTHER ->
             /\ NAV_STATE' = IF derive THEN S3 ELSE S2
             \* origin is history: the topic the fix came from
             /\ _prev_gps' = [t |-> "fix", lat |-> p.lat, lon |-> p.lon, ts |-> ts,
                              origin |-> topic]
             /\ IF live
                THEN /\ _GPS_LAST_VALID' = PyBool(GpsValid(p))
                     /\ SENSOR_STATES' =
                          [SENSOR_STATES EXCEPT !.gps = HealthOf(GpsValid(p))]
                ELSE UNCHANGED <<SENSOR_STATES, _GPS_LAST_VALID>>
             /\ last' = Event("msg", topic, p, "applied")

on_message_gps(topic, p) ==
  LET live == topic = TOPIC_SENSOR_GPS
  IN
  /\ UNCHANGED <<SENSOR_IMU_LAST_TIME, _IMU_LAST_VALID, _prev_imu_ts, _est_velocity,
                 _est_heading, _radar_tracks_internal>>
  /\ IF GpsGated(topic)
     THEN /\ UNCHANGED <<NAV_STATE, _prev_gps, SENSOR_STATES, _GPS_LAST_VALID,
                         ESP32_LAST_MESSAGE_TIME, SENSOR_GPS_LAST_TIME>>
          /\ last' = Event("msg", topic, p, "dropped")
     ELSE /\ IF live
             THEN /\ ESP32_LAST_MESSAGE_TIME' = Num(now)
                  /\ SENSOR_GPS_LAST_TIME' = Num(now)
             ELSE UNCHANGED <<ESP32_LAST_MESSAGE_TIME, SENSOR_GPS_LAST_TIME>>
          /\ apply_gps(topic, p)

(***************************************************************************)
(* _on_message, attitude topics (main.py 318-404).                         *)
(***************************************************************************)
on_message_imu(topic, p) ==
  LET live == topic = TOPIC_SENSOR_IMU
      ts == _parse_ts(p.ts)
      accel == ~IsNone(p.ax) /\ ~IsNone(p.ay) /\ ~IsNone(p.az)
      \* lines 343-346
      roll == IF accel THEN RollOf(p.ay, p.az) ELSE NAV_STATE.roll
      pitch == IF accel THEN PitchOf(p.ax, p.ay, p.az) ELSE NAV_STATE.pitch
      gz == IF p.gz.t = "num" THEN Rad(p.gz.v) ELSE p.gz
      \* lines 347-361
      integrate == ~IsNone(_prev_imu_ts) /\ ts - _prev_imu_ts.v > 0
      dt == ts - _prev_imu_ts.v
      vel == IF integrate /\ accel
             THEN AddVelocity(_est_velocity, AxLinDt(p.ax, pitch, dt))
             ELSE _est_velocity
      hdg == IF integrate /\ ~IsNone(p.gz)
             THEN IntegrateHeading(_est_heading, p.gz, dt)
             ELSE _est_heading
      S1 == [NAV_STATE EXCEPT !.roll = roll, !.pitch = pitch, !.rate_of_turn = gz,
               !.estimated_speed = IF integrate /\ accel THEN vel ELSE @,
               !.estimated_speed_confidence = IF integrate /\ accel THEN Num(100) ELSE @]
      \* lines 363-380
      mag == /\ ~IsNone(p.mx) /\ ~IsNone(p.my) /\ ~IsNone(p.mz)
             /\ ~IsNone(roll) /\ ~IsNone(pitch)
      heading == IF mag THEN HeadingTc(p.mx, p.my, p.mz, roll, pitch) ELSE hdg
      \* lines 382-394
      S2 == [S1 EXCEPT !.heading = IF live THEN LiveHeadingCorrection(heading)
                                   ELSE heading,
                       !.latency = Latency(ts)]
  IN
  /\ UNCHANGED <<SENSOR_GPS_LAST_TIME, _GPS_LAST_VALID, _prev_gps, _radar_tracks_internal>>
  /\ IF ImuGated(topic)
     THEN /\ UNCHANGED <<NAV_STATE, _prev_imu_ts, _est_velocity, _est_heading,
                         SENSOR_STATES, _IMU_LAST_VALID,
                         ESP32_LAST_MESSAGE_TIME, SENSOR_IMU_LAST_TIME>>
          /\ last' = Event("msg", topic, p, "dropped")
     ELSE /\ IF live
             THEN /\ ESP32_LAST_MESSAGE_TIME' = Num(now)
                  /\ SENSOR_IMU_LAST_TIME' = Num(now)
             ELSE UNCHANGED <<ESP32_LAST_MESSAGE_TIME, SENSOR_IMU_LAST_TIME>>
          /\ CASE p.kind # "obj" ->
                    \* payload.get raises AttributeError
                    /\ UNCHANGED <<NAV_STATE, _prev_imu_ts, _est_velocity, _est_heading,
                                   SENSOR_STATES, _IMU_LAST_VALID>>
                    /\ last' = Event("msg", topic, p, "raised")
               [] p.kind = "obj"
                    /\ (\/ p.gx.t = "str" \/ p.gy.t = "str" \/ p.gz.t = "str"
                        \/ accel /\ (p.ay.t = "str" \/ p.az.t = "str")) ->
                    \* radians(gx) or atan2(ay, az) raises TypeError
                    /\ UNCHANGED <<NAV_STATE, _prev_imu_ts, _est_velocity, _est_heading,
                                   SENSOR_STATES, _IMU_LAST_VALID>>
                    /\ last' = Event("msg", topic, p, "raised")
               [] p.kind = "obj"
                    /\ p.gx.t # "str" /\ p.gy.t # "str" /\ p.gz.t # "str"
                    /\ accel /\ p.ay.t # "str" /\ p.az.t # "str" /\ p.ax.t = "str" ->
                    \* -ax raises TypeError after the roll is stored
                    /\ NAV_STATE' = [NAV_STATE EXCEPT !.roll = roll]
                    /\ UNCHANGED <<_prev_imu_ts, _est_velocity, _est_heading,
                                   SENSOR_STATES, _IMU_LAST_VALID>>
                    /\ last' = Event("msg", topic, p, "raised")
               [] p.kind = "obj"
                    /\ p.gx.t # "str" /\ p.gy.t # "str" /\ p.gz.t # "str"
                    /\ ~(accel /\ (p.ax.t = "str" \/ p.ay.t = "str" \/ p.az.t = "str"))
                    /\ mag /\ (p.mx.t = "str" \/ p.my.t = "str" \/ p.mz.t = "str") ->
                    \* my * cos(roll) raises TypeError after the integration
                    /\ NAV_STATE' = S1
                    /\ _prev_imu_ts' = Num(ts)
                    /\ _est_velocity' = vel
                    /\ _est_heading' = hdg
                    /\ UNCHANGED <<SENSOR_STATES, _IMU_LAST_VALID>>
                    /\ last' = Event("msg", topic, p, "raised")
               [] OTHER ->
                    /\ NAV_STATE' = S2
                    /\ _prev_imu_ts' = Num(ts)
                    /\ _est_velocity' = vel
                    /\ _est_heading' = hdg
                    /\ IF live
                       THEN /\ _IMU_LAST_VALID' = PyBool(ImuValid(p))
                            /\ SENSOR_STATES' =
                                 [SENSOR_STATES EXCEPT !.imu = HealthOf(ImuValid(p))]
                       ELSE UNCHANGED <<SENSOR_STATES, _IMU_LAST_VALID>>
                    /\ last' = Event("msg", topic, p, "applied")

(***************************************************************************)
(* _on_message, battery topics (main.py 406-419).                          *)
(***************************************************************************)
\* if soc <= 1: soc *= 100.0 (state of charge in percent)
BatterySoc(soc) == IF soc.t = "num" /\ soc.v <= 1 THEN Num(soc.v * 100) ELSE soc

on_message_battery(topic, p) ==
  /\ UNCHANGED <<SENSOR_IMU_LAST_TIME, SENSOR_GPS_LAST_TIME, healthVars,
                 _prev_gps, _prev_imu_ts, _est_velocity, _est_heading,
                 _radar_tracks_internal>>
  /\ IF topic = TOPIC_SENSOR_BATTERY
     THEN ESP32_LAST_MESSAGE_TIME' = Num(now)
     ELSE UNCHANGED ESP32_LAST_MESSAGE_TIME
  /\ CASE p.kind # "obj" ->
            /\ UNCHANGED NAV_STATE
            /\ last' = Event("msg", topic, p, "raised")
       [] p.kind = "obj" /\ p.soc.t = "str" ->
            \* soc <= 1 raises TypeError
            /\ UNCHANGED NAV_STATE
            /\ last' = Event("msg", topic, p, "raised")
       [] OTHER ->
            /\ NAV_STATE' = [NAV_STATE EXCEPT
                 !.battery_status = IF IsNone(p.soc) THEN @ ELSE BatterySoc(p.soc),
                 !.latency = Latency(_parse_ts(p.ts))]
            /\ last' = Event("msg", topic, p, "applied")

\* lines 421-431: the link status; the latency is the plain difference
on_message_status(topic, p) ==
  /\ UNCHANGED <<liveTimeVars, healthVars, _prev_gps, _prev_imu_ts, _est_velocity,
                 _est_heading, _radar_tracks_internal>>
  /\ IF p.kind # "obj"
     THEN \* payload.get raises AttributeError
          /\ UNCHANGED NAV_STATE
          /\ last' = Event("msg", topic, p, "raised")
     ELSE /\ NAV_STATE' = [NAV_STATE EXCEPT
                 !.wifi_rssi = IntOrKeep(p.wifi_rssi, @),
                 !.wifi_quality = IF p.wifi_quality.t = "str" THEN p.wifi_quality ELSE @,
                 !.latency = Num(now - _parse_ts(p.ts))]
          /\ last' = Event("msg", topic, p, "applied")

(***************************************************************************)
(* Radar tracks (main.py 113-118, 145-163 and 433-459).                    *)
(***************************************************************************)
Track(distance, bearing, heading, last_seen) ==
  [distance |-> distance, bearing |-> bearing, heading |-> heading,
   last_seen |-> last_seen]

\* a faulty comparison that leaves the edge of the tolerance out
WithinStrict(trk, distance, bearing, heading) ==
  /\ Abs(trk.distance - distance) < TRACK_DISTANCE_MAX
  /\ Abs(trk.bearing - bearing) < TRACK_BEARING_MAX
  /\ Abs(trk.heading - heading) < TRACK_HEADING_MAX

\* lines 148-152
Within(trk, distance, bearing, heading) ==
  /\ Abs(trk.distance - distance) <= TRACK_DISTANCE_MAX
  /\ Abs(trk.bearing - bearing) <= TRACK_BEARING_MAX
  /\ Abs(trk.heading - heading) <= TRACK_HEADING_MAX

\* the for/else of lines 147-158: the first track within the tolerances is
\* overwritten, and without one the detection becomes a new track
Associate(tracks, distance, bearing, heading) ==
  LET hits == {i \in 1..Len(tracks) : Within(tracks[i], distance, bearing, heading)}
      new == Track(distance, bearing, heading, now)
  IN  IF hits = {} THEN Append(tracks, new)
      ELSE LET first == CHOOSE i \in hits : \A j \in hits : i <= j
           IN  [tracks EXCEPT ![first] = new]

\* a faulty eviction that keeps every track
EvictNothing(tracks) == tracks

\* line 159
Evict(tracks) == SelectSeq(tracks, LAMBDA t : now - t.last_seen <= TRACK_TIMEOUT)

\* lines 160-163 and 455-458
Publish(tracks) ==
  [i \in 1..Len(tracks) |->
     [distance |-> tracks[i].distance, bearing |-> tracks[i].bearing,
      heading |-> tracks[i].heading]]

_update_radar_track(distance, bearing, heading) ==
  LET tracks == Evict(Associate(_radar_tracks_internal, distance, bearing, heading))
  IN  /\ _radar_tracks_internal' = tracks
      /\ NAV_STATE' = [NAV_STATE EXCEPT !.radar_tracks = Publish(tracks)]

\* lines 433-438
on_message_track(topic, p) ==
  /\ UNCHANGED <<_prev_gps, _prev_imu_ts, _est_velocity, _est_heading, healthVars,
                 liveTimeVars>>
  /\ CASE p.kind # "obj" ->
            \* payload.get raises AttributeError
            /\ UNCHANGED <<NAV_STATE, _radar_tracks_internal>>
            /\ last' = Event("msg", topic, p, "raised")
       [] p.kind = "obj"
          /\ (IsNone(p.distance) \/ IsNone(p.bearing) \/ IsNone(p.heading)) ->
            /\ UNCHANGED <<NAV_STATE, _radar_tracks_internal>>
            /\ last' = Event("msg", topic, p, "skipped")
       [] p.kind = "obj"
          /\ ~(IsNone(p.distance) \/ IsNone(p.bearing) \/ IsNone(p.heading))
          /\ "str" \in {p.distance.t, p.bearing.t, p.heading.t} ->
            \* float() raises ValueError
            /\ UNCHANGED <<NAV_STATE, _radar_tracks_internal>>
            /\ last' = Event("msg", topic, p, "raised")
       [] OTHER ->
            /\ _update_radar_track(p.distance.v, p.bearing.v, p.heading.v)
            /\ last' = Event("msg", topic, p, "applied")

\* t.get(key, 0) of lines 447-449
FieldOrZero(x) == IF IsNone(x) THEN 0 ELSE x.v

\* float() of lines 447-449 takes every field of every listed track
Listable(tracks) ==
  \A i \in 1..Len(tracks) :
    "str" \notin {tracks[i].distance.t, tracks[i].bearing.t, tracks[i].heading.t}

\* a faulty update that keeps the tracks it finds and adds the listed ones
on_message_radar_Adding(topic, p) ==
  /\ UNCHANGED <<_prev_gps, _prev_imu_ts, _est_velocity, _est_heading, healthVars,
                 liveTimeVars>>
  /\ IF p.kind = "list" /\ Listable(p.tracks)
     THEN LET tracks == _radar_tracks_internal \o
                          [i \in 1..Len(p.tracks) |->
                             Track(FieldOrZero(p.tracks[i].distance),
                                   FieldOrZero(p.tracks[i].bearing),
                                   FieldOrZero(p.tracks[i].heading), now)]
          IN  /\ _radar_tracks_internal' = tracks
              /\ NAV_STATE' = [NAV_STATE EXCEPT !.radar_tracks = Publish(tracks)]
              /\ last' = Event("msg", topic, p, "applied")
     ELSE /\ UNCHANGED <<NAV_STATE, _radar_tracks_internal>>
          /\ last' = Event("msg", topic, p, "raised")

\* lines 440-459
on_message_radar(topic, p) ==
  /\ UNCHANGED <<_prev_gps, _prev_imu_ts, _est_velocity, _est_heading, healthVars,
                 liveTimeVars>>
  /\ CASE p.kind \notin {"obj", "list"} ->
            \* payload.get raises AttributeError
            /\ UNCHANGED <<NAV_STATE, _radar_tracks_internal>>
            /\ last' = Event("msg", topic, p, "raised")
       [] p.kind = "obj" /\ IsNone(p.tracks) ->
            /\ UNCHANGED <<NAV_STATE, _radar_tracks_internal>>
            /\ last' = Event("msg", topic, p, "skipped")
       [] p.kind = "list" /\ ~Listable(p.tracks) ->
            \* float() raises ValueError before the tracks are replaced
            /\ UNCHANGED <<NAV_STATE, _radar_tracks_internal>>
            /\ last' = Event("msg", topic, p, "raised")
       [] OTHER ->
            LET tracks == [i \in 1..Len(p.tracks) |->
                             Track(FieldOrZero(p.tracks[i].distance),
                                   FieldOrZero(p.tracks[i].bearing),
                                   FieldOrZero(p.tracks[i].heading), now)]
            IN  /\ _radar_tracks_internal' = tracks
                /\ NAV_STATE' = [NAV_STATE EXCEPT !.radar_tracks = Publish(tracks)]
                /\ last' = Event("msg", topic, p, "applied")

GpsTopics == {TOPIC_SENSOR_GPS, TOPIC_SIM_GPS}
ImuTopics == {TOPIC_SENSOR_IMU, TOPIC_SIM_IMU}
BatteryTopics == {TOPIC_SENSOR_BATTERY, TOPIC_SIM_BATTERY}
RadarTopics == {TOPIC_SENSOR_RADAR, TOPIC_PROCESSED_RADAR}
\* the topic of line 421
SensorStatus == "sensor/status"

\* a faulty handler that stamps the receipt time before it decodes
on_message_StampsFirst(topic, p) ==
  /\ UNCHANGED <<now, simVars, SYSTEM_STATE>>
  /\ LAST_MESSAGE_TIME' = Num(now)
  /\ IF p.kind \in {"nojson", "notutf8"}
     THEN /\ UNCHANGED <<navVars, healthVars, liveTimeVars>>
          /\ last' = Event("msg", topic, p, "undecodable")
     ELSE CASE topic \in GpsTopics -> on_message_gps(topic, p)
            [] topic \in ImuTopics -> on_message_imu(topic, p)
            [] topic \in BatteryTopics -> on_message_battery(topic, p)
            [] topic = TOPIC_SENSOR_TRACK -> on_message_track(topic, p)
            [] topic \in RadarTopics -> on_message_radar(topic, p)

\* the handler as a whole: decoding (lines 214-218), then the topic's branch
on_message(topic, p) ==
  /\ UNCHANGED <<now, simVars, SYSTEM_STATE>>
  /\ IF p.kind = "nojson"
     THEN /\ UNCHANGED <<navVars, healthVars, liveTimeVars, LAST_MESSAGE_TIME>>
          /\ last' = Event("msg", topic, p, "undecodable")
     ELSE IF p.kind = "notutf8"
     THEN \* bytes.decode raises UnicodeDecodeError, which line 216 does not catch
          /\ UNCHANGED <<navVars, healthVars, liveTimeVars, LAST_MESSAGE_TIME>>
          /\ last' = Event("msg", topic, p, "raised")
     ELSE /\ LAST_MESSAGE_TIME' = Num(now)
          /\ CASE topic \in GpsTopics -> on_message_gps(topic, p)
               [] topic \in ImuTopics -> on_message_imu(topic, p)
               [] topic \in BatteryTopics -> on_message_battery(topic, p)
               [] topic = SensorStatus -> on_message_status(topic, p)
               [] topic = TOPIC_SENSOR_TRACK -> on_message_track(topic, p)
               [] topic \in RadarTopics -> on_message_radar(topic, p)

(***************************************************************************)
(* _broadcast_loop, one tick (main.py 464-525): time-based availability of *)
(* the two sensors, then the system state.  The 100 ms cadence is below    *)
(* the resolution of the clock, so a tick may run at any instant.          *)
(***************************************************************************)
\* a faulty timeout that only expires a sensor that was reporting
TickSensorStateReportingOnly(gate, last_time, state) ==
  IF ~gate
  THEN IF IsNone(last_time) THEN state
       ELSE IF now - last_time.v > HEALTH_TIMEOUT /\ state \in {"Running", "Degraded"}
            THEN "Unavailable"
       ELSE state
  ELSE "Simulated"

\* a faulty aggregation that tests "both not initialized" before the timeout
SystemStateOfInitFirst(imu_state, gps_state) ==
  IF SIM_IMU_ACTIVE \/ SIM_GPS_ACTIVE THEN "Simulation"
  ELSE IF imu_state = "Not initialized" /\ gps_state = "Not initialized"
       THEN "Initializing"
  ELSE IF ~IsNone(ESP32_LAST_MESSAGE_TIME)
          /\ now - ESP32_LAST_MESSAGE_TIME.v > HEALTH_TIMEOUT THEN "Unavailable"
  ELSE IF imu_state = "Running" /\ gps_state = "Running" THEN "OK"
  ELSE "Degraded"

\* lines 475-490, for one sensor
TickSensorState(gate, last_time, state) ==
  IF ~gate
  THEN IF IsNone(last_time) THEN state
       ELSE IF now - last_time.v > HEALTH_TIMEOUT THEN "Unavailable"
       ELSE state
  ELSE "Simulated"

\* lines 492-510
SystemStateOf(imu_state, gps_state) ==
  IF SIM_IMU_ACTIVE \/ SIM_GPS_ACTIVE THEN "Simulation"
  ELSE IF ~IsNone(ESP32_LAST_MESSAGE_TIME)
          /\ now - ESP32_LAST_MESSAGE_TIME.v > HEALTH_TIMEOUT THEN "Unavailable"
  ELSE IF imu_state = "Not initialized" /\ gps_state = "Not initialized"
       THEN "Initializing"
  ELSE IF imu_state = "Running" /\ gps_state = "Running" THEN "OK"
  ELSE "Degraded"

broadcast_tick ==
  LET imu == TickSensorState(SIM_IMU_ACTIVE, SENSOR_IMU_LAST_TIME, SENSOR_STATES.imu)
      gps == TickSensorState(SIM_GPS_ACTIVE, SENSOR_GPS_LAST_TIME, SENSOR_STATES.gps)
  IN  /\ SENSOR_STATES' = [imu |-> imu, gps |-> gps]
      /\ SYSTEM_STATE' = SystemStateOf(imu, gps)
      /\ last' = Event("tick", "", NoPayload, "")
      /\ UNCHANGED <<now, navVars, _IMU_LAST_VALID, _GPS_LAST_VALID, liveTimeVars,
                     simVars, LAST_MESSAGE_TIME>>

(***************************************************************************)
(* Simulation control (main.py 794-888).  The control message republished  *)
(* to the simulators is an output and is not part of the state.            *)
(***************************************************************************)
\* a faulty STOP that always re-evaluates and never restores the baseline
StopStateNoBaseline(last_ts, base_ts, base_state, last_valid) ==
  IF IsNone(last_ts) THEN "Not initialized"
  ELSE IF now - last_ts.v > HEALTH_TIMEOUT THEN "Unavailable"
  ELSE IF last_valid = "True" THEN "Running" ELSE "Degraded"

\* the state a STOP restores (lines 811-823 and 860-871)
StopState(last_ts, base_ts, base_state, last_valid) ==
  IF IsNone(last_ts) THEN "Not initialized"
  ELSE IF ~IsNone(base_ts) /\ last_ts = base_ts
       THEN (IF base_state = "None" THEN "Not initialized" ELSE base_state)
  ELSE IF now - last_ts.v > HEALTH_TIMEOUT THEN "Unavailable"
  ELSE IF last_valid = "True" THEN "Running" ELSE "Degraded"

sim_imu(ctrl) ==
  /\ CASE ctrl = "START" ->
            /\ SIM_IMU_ACTIVE' = TRUE
            /\ _BASELINE_STATE' = [_BASELINE_STATE EXCEPT !.imu = SENSOR_STATES.imu]
            /\ _BASELINE_LAST_TS' = [_BASELINE_LAST_TS EXCEPT !.imu = SENSOR_IMU_LAST_TIME]
            /\ SENSOR_STATES' = [SENSOR_STATES EXCEPT !.imu = "Simulated"]
       [] ctrl = "STOP" ->
            /\ SIM_IMU_ACTIVE' = FALSE
            /\ SENSOR_STATES' = [SENSOR_STATES EXCEPT !.imu =
                 StopState(SENSOR_IMU_LAST_TIME, _BASELINE_LAST_TS.imu,
                           _BASELINE_STATE.imu, _IMU_LAST_VALID)]
            /\ UNCHANGED <<_BASELINE_STATE, _BASELINE_LAST_TS>>
  /\ last' = Event("sim_imu", ctrl, NoPayload, "")
  /\ UNCHANGED <<now, navVars, _IMU_LAST_VALID, _GPS_LAST_VALID, liveTimeVars,
                 SIM_GPS_ACTIVE, SYSTEM_STATE, LAST_MESSAGE_TIME>>

sim_gps(ctrl) ==
  /\ CASE ctrl \in {"VECTOR", "ROUTE"} ->
            /\ SIM_GPS_ACTIVE' = TRUE
            /\ _BASELINE_STATE' = [_BASELINE_STATE EXCEPT !.gps = SENSOR_STATES.gps]
            /\ _BASELINE_LAST_TS' = [_BASELINE_LAST_TS EXCEPT !.gps = SENSOR_GPS_LAST_TIME]
            /\ SENSOR_STATES' = [SENSOR_STATES EXCEPT !.gps = "Simulated"]
       [] ctrl = "STOP" ->
            /\ SIM_GPS_ACTIVE' = FALSE
            /\ SENSOR_STATES' = [SENSOR_STATES EXCEPT !.gps =
                 StopState(SENSOR_GPS_LAST_TIME, _BASELINE_LAST_TS.gps,
                           _BASELINE_STATE.gps, _GPS_LAST_VALID)]
            /\ UNCHANGED <<_BASELINE_STATE, _BASELINE_LAST_TS>>
  /\ last' = Event("sim_gps", ctrl, NoPayload, "")
  /\ UNCHANGED <<now, navVars, _IMU_LAST_VALID, _GPS_LAST_VALID, liveTimeVars,
                 SIM_IMU_ACTIVE, SYSTEM_STATE, LAST_MESSAGE_TIME>>

ImuControls == {"START", "STOP"}
GpsControls == {"VECTOR", "ROUTE", "STOP"}

(***************************************************************************)
(* The clock.                                                              *)
(***************************************************************************)
AdvanceTime ==
  /\ now + TimeStep <= MaxTime
  /\ now' = now + TimeStep
  /\ last' = Event("advance", "", NoPayload, "")
  /\ UNCHANGED <<navVars, healthVars, liveTimeVars, simVars, SYSTEM_STATE,
                 LAST_MESSAGE_TIME>>

(***************************************************************************)
(* Initial state: the module-level assignments of main.py 25-113.          *)
(***************************************************************************)
InitEngine ==
  /\ now = 0
  /\ NAV_STATE = [latitude |-> NoneV, longitude |-> NoneV, heading |-> NoneV,
                  roll |-> NoneV, pitch |-> NoneV, cog |-> NoneV,
                  estimated_speed |-> NoneV, estimated_speed_confidence |-> NoneV,
                  true_speed |-> NoneV, rate_of_turn |-> NoneV, latency |-> NoneV,
                  battery_status |-> NoneV, gps_fix_quality |-> NoneV,
                  hdop |-> NoneV, sats_used |-> NoneV, sats_in_view |-> NoneV,
                  wifi_quality |-> NoneV, wifi_rssi |-> NoneV,
                  radar_tracks |-> <<>>]
  /\ _radar_tracks_internal = <<>>
  /\ SENSOR_STATES = [imu |-> "Not initialized", gps |-> "Not initialized"]
  /\ SYSTEM_STATE = "Initializing"
  /\ _IMU_LAST_VALID = "None"
  /\ _GPS_LAST_VALID = "None"
  /\ _BASELINE_STATE = [imu |-> "None", gps |-> "None"]
  /\ _BASELINE_LAST_TS = [imu |-> NoneV, gps |-> NoneV]
  /\ LAST_MESSAGE_TIME = NoneV
  /\ ESP32_LAST_MESSAGE_TIME = NoneV
  /\ SENSOR_IMU_LAST_TIME = NoneV
  /\ SENSOR_GPS_LAST_TIME = NoneV
  /\ SIM_GPS_ACTIVE = FALSE
  /\ SIM_IMU_ACTIVE = FALSE
  /\ _prev_gps = NoneV
  /\ _prev_imu_ts = NoneV
  /\ _est_velocity = Num(0)
  /\ _est_heading = Rad(0)
  /\ last = [op |-> "init", arg |-> "", payload |-> NoPayload, result |-> "",
             before |-> [imu |-> "Not initialized", gps |-> "Not initialized"]]

(***************************************************************************)
(* Inputs of Spec: position, attitude and battery payloads that cover      *)
(* valid, invalid and raising messages.  Payloads without a ts field are   *)
(* stamped with the receipt time by _parse_ts.                             *)
(***************************************************************************)
GpsGood == GpsPayload(Num(1), Num(2), NoneV, NoneV, Num(1), Num(1), Num(5), NoneV, NoneV)
GpsZeroLat == GpsPayload(Num(0), Num(2), NoneV, NoneV, Num(1), Num(1), Num(5), Num(7), NoneV)
GpsInfLat == GpsPayload(InfV, Num(2), NoneV, NoneV, Num(1), Num(1), Num(5), NoneV, NoneV)
GpsSim == GpsPayload(Num(3), Num(4), Num(2), Num(90), Num(1), Num(1), Num(9), Num(9), NoneV)
LiveGpsPayloads == {GpsGood, GpsZeroLat, GpsInfLat}
SimGpsPayloads == {GpsSim}

ImuGood == ImuPayload(Num(0), Num(0), Num(1), Num(0), Num(0), Num(0), NoneV, NoneV, NoneV, NoneV)
ImuNoGz == ImuPayload(Num(0), Num(0), Num(1), Num(0), Num(0), NoneV, Num(1), Num(0), Num(0), NoneV)
ImuSim == ImuPayload(Num(1), Num(0), Num(0), Num(0), Num(0), Num(9), NoneV, NoneV, NoneV, NoneV)
LiveImuPayloads == {ImuGood, ImuNoGz}
SimImuPayloads == {ImuSim}

BatteryPayloads == {BatteryPayload(Num(1), NoneV)}

(***************************************************************************)
(* Replay (main.py 133-142 and 637-755).  The endpoints are coroutines     *)
(* without an await, so each runs as one callback of the event loop.       *)
(* _replay_runner is an asyncio task: it runs from one await to the next,  *)
(* and between two awaits one step of the model is one pass of its loop.   *)
(* The event loop runs its ready callbacks in FIFO order: a task woken by  *)
(* cancel() runs before a task created after the cancel() call.  A sleep   *)
(* of 10 or 50 ms is below the resolution of the monotonic clock, so a     *)
(* sleeping task may wake at any instant.                                  *)
(***************************************************************************)
\* base64 text is a sequence of sextets 0..63; B64Pad stands for '='
B64Pad == 64

RECURSIVE B64Quads(_)
B64Quads(s) ==
  IF s = <<>> THEN [ok |-> TRUE, bytes |-> <<>>]
  ELSE LET a == s[1]
           b == s[2]
           c == s[3]
           d == s[4]
           rest == SubSeq(s, 5, Len(s))
           bad == [ok |-> FALSE, bytes |-> <<>>]
       IN  IF a = B64Pad \/ b = B64Pad THEN bad
           ELSE IF c = B64Pad
                THEN (IF d = B64Pad /\ rest = <<>>
                      THEN [ok |-> TRUE, bytes |-> <<a * 4 + b \div 16>>]
                      ELSE bad)
           ELSE IF d = B64Pad
                THEN (IF rest = <<>>
                      THEN [ok |-> TRUE,
                            bytes |-> <<a * 4 + b \div 16, (b % 16) * 16 + c \div 4>>]
                      ELSE bad)
           ELSE LET r == B64Quads(rest)
                IN  IF r.ok
                    THEN [ok |-> TRUE,
                          bytes |-> <<a * 4 + b \div 16, (b % 16) * 16 + c \div 4,
                                      (c % 4) * 64 + d>> \o r.bytes]
                    ELSE bad

\* base64.b64decode (line 666): ok is FALSE where it raises binascii.Error
b64decode(s) ==
  IF Len(s) % 4 # 0 THEN [ok |-> FALSE, bytes |-> <<>>] ELSE B64Quads(s)

\* one entry of a recording file (lines 224-228)
Message(ts, topic, payload) == [timestamp |-> ts, topic |-> topic, payload |-> payload]

B64_Obj == <<30, 55, 52, B64Pad>>
B64_One == <<12, 16, B64Pad, B64Pad>>
B64_Bad == <<12>>

\* the recordings in SHARED_DIR: "e30=" is {}, "MQ==" is 1, "M" is not base64
FileA ==
  << Message(5, TOPIC_SENSOR_GPS, B64_Obj),
     Message(6, TOPIC_SENSOR_IMU, B64_One),
     Message(6, TOPIC_SENSOR_GPS, B64_Bad) >>
FileB ==
  << Message(7, TOPIC_SENSOR_IMU, B64_One),
     Message(7, TOPIC_SENSOR_GPS, B64_One) >>

FileC ==
  << Message(0, TOPIC_SENSOR_GPS, B64_Obj),
     Message(1, TOPIC_SENSOR_GPS, B64_Obj),
     Message(3, TOPIC_SENSOR_GPS, B64_Obj) >>

\* json is FALSE for a file json.load rejects
SHARED_DIR ==
  [n \in {"a.json", "b.json", "c.json", "empty.json", "bad.json"} |->
     CASE n = "a.json" -> [json |-> TRUE, messages |-> FileA]
       [] n = "b.json" -> [json |-> TRUE, messages |-> FileB]
       [] n = "c.json" -> [json |-> TRUE, messages |-> FileC]
       [] n = "empty.json" -> [json |-> TRUE, messages |-> <<>>]
       [] n = "bad.json" -> [json |-> FALSE, messages |-> <<>>]]

ReplayNames == {"a.json", "b.json", "empty.json", "bad.json", "missing.json", ""}
TimedNames == {"c.json"}
ReplayFilters == {{}, {TOPIC_SENSOR_GPS}}

SleepPcs == {"sleep_paused", "sleep_wait", "sleep_rebase"}
NewTask == [pc |-> "created", cancelled |-> FALSE, t_rel |-> 0, target |-> 0]

\* an endpoint runs when the loop is not inside a task step and has not
\* begun the batch of callbacks that were queued together
EndpointRuns == running = 0 /\ ~draining

\* Task.cancel() (lines 717-721 and 750-754): a task that is done is left
\* alone; a sleeping task is made ready so that CancelledError is thrown into
\* it; a task that has not run yet stays where it is in the queue
CancelTasks(t) ==
  IF t = 0 \/ tasks[t].pc = "done" THEN tasks
  ELSE [tasks EXCEPT ![t].cancelled = TRUE]

CancelReady(t) ==
  IF t # 0 /\ tasks[t].pc \in SleepPcs /\ ~tasks[t].cancelled
  THEN Append(ready, t) ELSE ready

\* a faulty start that empties the loaded messages before it reads the file
replay_start_LoadsFirst(name, topics) ==
  /\ EndpointRuns
  /\ IF name = "" \/ name \notin DOMAIN disk \/ ~disk[name].json
     THEN /\ REPLAY_MESSAGES' = <<>>
          /\ UNCHANGED <<REPLAY_ACTIVE, REPLAY_PAUSED, REPLAY_TOPICS, REPLAY_FILE,
                         REPLAY_TASK, REPLAY_START_MONO, REPLAY_BASE_TS, REPLAY_COUNT,
                         REPLAY_IDX, loopVars, mono, replayHistory>>
          /\ last' = Event("replay_start", name, NoPayload, "error")
     ELSE /\ Len(tasks) < MaxSessions
          /\ REPLAY_MESSAGES' = disk[name].messages
          /\ REPLAY_FILE' = name
          /\ REPLAY_TOPICS' = topics
          /\ REPLAY_COUNT' = 0
          /\ REPLAY_IDX' = 0
          /\ REPLAY_ACTIVE' = TRUE
          /\ REPLAY_PAUSED' = FALSE
          /\ tasks' = Append(CancelTasks(REPLAY_TASK), NewTask)
          /\ ready' = Append(CancelReady(REPLAY_TASK), Len(tasks) + 1)
          /\ REPLAY_TASK' = Len(tasks) + 1
          /\ stopped' = FALSE
          /\ restarted' = (REPLAY_TASK # 0 /\ tasks[REPLAY_TASK].pc \in SleepPcs)
          /\ last' = Event("replay_start", name, NoPayload, "ok")
          /\ ever_paused' = FALSE
          /\ UNCHANGED <<REPLAY_START_MONO, REPLAY_BASE_TS, mono, running, draining,
                         published, paused_in, anchor, elapsed>>
  /\ UNCHANGED <<engineState, inputs, recorderVars, observerVars>>

\* lines 691-723
replay_start(name, topics) ==
  /\ EndpointRuns
  /\ IF name = "" \/ name \notin DOMAIN disk \/ ~disk[name].json
     THEN /\ UNCHANGED replayVars
          /\ last' = Event("replay_start", name, NoPayload, "error")
     ELSE /\ Len(tasks) < MaxSessions
          /\ REPLAY_MESSAGES' = disk[name].messages
          /\ REPLAY_FILE' = name
          /\ REPLAY_TOPICS' = topics
          /\ REPLAY_COUNT' = 0
          /\ REPLAY_IDX' = 0
          /\ REPLAY_ACTIVE' = TRUE
          /\ REPLAY_PAUSED' = FALSE
          /\ tasks' = Append(CancelTasks(REPLAY_TASK), NewTask)
          /\ ready' = Append(CancelReady(REPLAY_TASK), Len(tasks) + 1)
          /\ REPLAY_TASK' = Len(tasks) + 1
          /\ stopped' = FALSE
          /\ restarted' = (REPLAY_TASK # 0 /\ tasks[REPLAY_TASK].pc \in SleepPcs)
          /\ last' = Event("replay_start", name, NoPayload, "ok")
          /\ ever_paused' = FALSE
          /\ UNCHANGED <<REPLAY_START_MONO, REPLAY_BASE_TS, mono, running, draining,
                         published, paused_in, anchor, elapsed>>
  /\ UNCHANGED <<engineState, inputs, recorderVars, observerVars>>

replay_pause ==
  /\ EndpointRuns
  /\ IF REPLAY_ACTIVE
     THEN REPLAY_PAUSED' = TRUE /\ paused_in' = Len(tasks) /\ ever_paused' = TRUE
     ELSE UNCHANGED <<REPLAY_PAUSED, paused_in, ever_paused>>
  /\ last' = Event("replay_pause", "", NoPayload, "ok")
  /\ UNCHANGED <<REPLAY_ACTIVE, REPLAY_TOPICS, REPLAY_FILE, REPLAY_TASK,
                 REPLAY_START_MONO, REPLAY_BASE_TS, REPLAY_MESSAGES, REPLAY_COUNT,
                 REPLAY_IDX, loopVars, mono, published, stopped, restarted, anchor, elapsed>>
  /\ UNCHANGED <<engineState, inputs, recorderVars, observerVars>>

\* float(REPLAY_BASE_TS or 0.0)
BaseTs == IF IsNone(REPLAY_BASE_TS) THEN 0 ELSE REPLAY_BASE_TS.v

\* a faulty resume that leaves the session paused
replay_resume_KeepsPaused ==
  /\ EndpointRuns
  /\ IF REPLAY_ACTIVE
     THEN /\ UNCHANGED REPLAY_PAUSED
          /\ IF REPLAY_IDX < Len(REPLAY_MESSAGES)
             THEN REPLAY_START_MONO' =
                    Num(mono - (REPLAY_MESSAGES[REPLAY_IDX + 1].timestamp - BaseTs))
             ELSE UNCHANGED REPLAY_START_MONO
     ELSE UNCHANGED <<REPLAY_PAUSED, REPLAY_START_MONO>>
  /\ paused_in' = 0
  /\ last' = Event("replay_resume", "", NoPayload, "ok")
  /\ UNCHANGED <<REPLAY_ACTIVE, REPLAY_TOPICS, REPLAY_FILE, REPLAY_TASK,
                 REPLAY_BASE_TS, REPLAY_MESSAGES, REPLAY_COUNT, REPLAY_IDX,
                 loopVars, mono, published, stopped, restarted, anchor, elapsed, ever_paused>>
  /\ UNCHANGED <<engineState, inputs, recorderVars, observerVars>>

\* lines 734-743
replay_resume ==
  /\ EndpointRuns
  /\ IF REPLAY_ACTIVE
     THEN /\ REPLAY_PAUSED' = FALSE
          /\ IF REPLAY_IDX < Len(REPLAY_MESSAGES)
             THEN REPLAY_START_MONO' =
                    Num(mono - (REPLAY_MESSAGES[REPLAY_IDX + 1].timestamp - BaseTs))
             ELSE UNCHANGED REPLAY_START_MONO
     ELSE UNCHANGED <<REPLAY_PAUSED, REPLAY_START_MONO>>
  /\ paused_in' = 0
  /\ last' = Event("replay_resume", "", NoPayload, "ok")
  /\ UNCHANGED <<REPLAY_ACTIVE, REPLAY_TOPICS, REPLAY_FILE, REPLAY_TASK,
                 REPLAY_BASE_TS, REPLAY_MESSAGES, REPLAY_COUNT, REPLAY_IDX,
                 loopVars, mono, published, stopped, restarted, anchor, elapsed, ever_paused>>
  /\ UNCHANGED <<engineState, inputs, recorderVars, observerVars>>

\* a faulty stop that cancels the loop and leaves the flag to the loop
replay_stop_CancelOnly ==
  /\ EndpointRuns
  /\ tasks' = CancelTasks(REPLAY_TASK)
  /\ ready' = CancelReady(REPLAY_TASK)
  /\ stopped' = TRUE
  /\ paused_in' = 0
  /\ last' = Event("replay_stop", "", NoPayload, "ok")
  /\ UNCHANGED <<REPLAY_ACTIVE, REPLAY_PAUSED, REPLAY_TOPICS, REPLAY_FILE, REPLAY_TASK,
                 REPLAY_START_MONO, REPLAY_BASE_TS, REPLAY_MESSAGES, REPLAY_COUNT,
                 REPLAY_IDX, running, draining, mono, published, restarted, anchor, elapsed,
                 ever_paused>>
  /\ UNCHANGED <<engineState, inputs, recorderVars, observerVars>>

replay_stop ==
  /\ EndpointRuns
  /\ REPLAY_ACTIVE' = FALSE
  /\ tasks' = CancelTasks(REPLAY_TASK)
  /\ ready' = CancelReady(REPLAY_TASK)
  /\ stopped' = TRUE
  /\ paused_in' = 0
  /\ last' = Event("replay_stop", "", NoPayload, "ok")
  /\ UNCHANGED <<REPLAY_PAUSED, REPLAY_TOPICS, REPLAY_FILE, REPLAY_TASK,
                 REPLAY_START_MONO, REPLAY_BASE_TS, REPLAY_MESSAGES, REPLAY_COUNT,
                 REPLAY_IDX, running, draining, mono, published, restarted, anchor, elapsed,
                 ever_paused>>
  /\ UNCHANGED <<engineState, inputs, recorderVars, observerVars>>

(***************************************************************************)
(* _replay_runner (lines 637-675).  pc is "created" before the first step, *)
(* "loop" at the head of the outer while (line 647), "sleep_paused" at the *)
(* await of line 649, "sleep_wait" at the await of line 656,               *)
(* "sleep_rebase" at the await of line 662, "done" after the finally.      *)
(***************************************************************************)
Max0(n) == IF n > 0 THEN n ELSE 0

SetTask(t, pc, t_rel, target) ==
  tasks' = [tasks EXCEPT ![t] = [pc |-> pc, cancelled |-> tasks[t].cancelled,
                                 t_rel |-> t_rel, target |-> target]]

\* the callback leaves the ready queue
PopReady ==
  /\ ready' = Tail(ready)
  /\ draining' = (Tail(ready) # <<>>)

\* lines 640-646: the first step of a task that was not cancelled before it ran
runner_begin(t) ==
  /\ running = 0
  /\ ready # <<>>
  /\ t = Head(ready)
  /\ tasks[t].pc = "created"
  /\ ~tasks[t].cancelled
  /\ PopReady
  /\ REPLAY_START_MONO' = Num(mono)
  /\ anchor' = mono
  /\ elapsed' = 0
  /\ IF REPLAY_MESSAGES = <<>>
     THEN /\ REPLAY_ACTIVE' = FALSE
          /\ SetTask(t, "done", 0, 0)
          /\ running' = 0
          /\ UNCHANGED <<REPLAY_BASE_TS, REPLAY_IDX>>
     ELSE /\ REPLAY_BASE_TS' = Num(REPLAY_MESSAGES[1].timestamp)
          /\ REPLAY_IDX' = 0
          /\ SetTask(t, "loop", 0, 0)
          /\ running' = t
          /\ UNCHANGED REPLAY_ACTIVE
  /\ last' = Event("runner", "begin", NoPayload, "")
  /\ UNCHANGED <<REPLAY_PAUSED, REPLAY_TOPICS, REPLAY_FILE, REPLAY_TASK, REPLAY_MESSAGES,
                 REPLAY_COUNT, mono, published, stopped, restarted, paused_in,
                 ever_paused>>
  /\ UNCHANGED <<engineState, inputs, recorderVars, observerVars>>

\* CancelledError reaches the task: a task that never ran ends without
\* entering the try block; a sleeping task runs the finally of lines 674-675
runner_cancelled(t) ==
  /\ running = 0
  /\ ready # <<>>
  /\ t = Head(ready)
  /\ tasks[t].cancelled
  /\ PopReady
  /\ SetTask(t, "done", 0, 0)
  /\ IF tasks[t].pc = "created"
     THEN UNCHANGED REPLAY_ACTIVE
     ELSE REPLAY_ACTIVE' = FALSE
  /\ last' = Event("runner", "cancelled", NoPayload, "")
  /\ UNCHANGED <<REPLAY_PAUSED, REPLAY_TOPICS, REPLAY_FILE, REPLAY_TASK,
                 REPLAY_START_MONO, REPLAY_BASE_TS, REPLAY_MESSAGES, REPLAY_COUNT,
                 REPLAY_IDX, running, mono, replayHistory>>
  /\ UNCHANGED <<engineState, inputs, recorderVars, observerVars>>

\* lines 664-671: the filter, the decoding and the publish call
PassesFilter(topic) == REPLAY_TOPICS = {} \/ topic \in REPLAY_TOPICS

Republish(t, msg) ==
  LET b == b64decode(msg.payload)
  IN  IF PassesFilter(msg.topic) /\ b.ok
      THEN /\ published' = Append(published,
                                  [session |-> t, index |-> REPLAY_IDX,
                                   topic |-> msg.topic, payload |-> b.bytes])
           /\ REPLAY_COUNT' = REPLAY_COUNT + 1
      ELSE UNCHANGED <<published, REPLAY_COUNT>>

\* a faulty loop body that publishes whatever the paused flag says
AfterWaitIgnoringPause(t) ==
  /\ UNCHANGED <<REPLAY_ACTIVE, REPLAY_START_MONO>>
  /\ Republish(t, REPLAY_MESSAGES[REPLAY_IDX + 1])
  /\ REPLAY_IDX' = REPLAY_IDX + 1
  /\ elapsed' = 0
  /\ SetTask(t, "loop", 0, 0)
  /\ running' = t

\* a faulty loop body that republishes without advancing the index
AfterWaitSameIndex(t) ==
  /\ UNCHANGED <<REPLAY_ACTIVE, REPLAY_START_MONO, REPLAY_IDX>>
  /\ Republish(t, REPLAY_MESSAGES[REPLAY_IDX + 1])
  /\ elapsed' = 0
  /\ SetTask(t, "loop", 0, 0)
  /\ running' = t

\* lines 657-673, once the wait of lines 655-656 is over
AfterWait(t) ==
  IF ~REPLAY_ACTIVE
  THEN /\ REPLAY_ACTIVE' = FALSE
       /\ SetTask(t, "done", 0, 0)
       /\ running' = 0
       /\ UNCHANGED <<REPLAY_START_MONO, REPLAY_IDX, REPLAY_COUNT, published, elapsed>>
  ELSE IF REPLAY_PAUSED
  THEN /\ REPLAY_START_MONO' = Num(mono - Max0(tasks[t].t_rel))
       /\ SetTask(t, "sleep_rebase", 0, 0)
       /\ running' = 0
       /\ UNCHANGED <<REPLAY_ACTIVE, REPLAY_IDX, REPLAY_COUNT, published, elapsed>>
  ELSE /\ UNCHANGED <<REPLAY_ACTIVE, REPLAY_START_MONO>>
       /\ Republish(t, REPLAY_MESSAGES[REPLAY_IDX + 1])
       /\ REPLAY_IDX' = REPLAY_IDX + 1
       /\ elapsed' = 0
       /\ SetTask(t, "loop", 0, 0)
       /\ running' = t

\* the condition of the inner while (line 655)
StillWaiting(target) == ~REPLAY_PAUSED /\ mono < target /\ REPLAY_ACTIVE

\* REPLAY_START_MONO or time.monotonic(): None and 0.0 are both false
StartMonoOrNow ==
  IF IsNone(REPLAY_START_MONO) \/ REPLAY_START_MONO.v = 0 THEN mono
  ELSE REPLAY_START_MONO.v

\* lines 647-656: one pass of the outer loop up to its first await
runner_loop(t) ==
  /\ running = t
  /\ tasks[t].pc = "loop"
  /\ IF ~(REPLAY_ACTIVE /\ REPLAY_IDX < Len(REPLAY_MESSAGES))
     THEN /\ REPLAY_ACTIVE' = FALSE
          /\ SetTask(t, "done", 0, 0)
          /\ running' = 0
          /\ UNCHANGED <<REPLAY_START_MONO, REPLAY_IDX, REPLAY_COUNT, published, elapsed>>
     ELSE IF REPLAY_PAUSED
     THEN /\ SetTask(t, "sleep_paused", 0, 0)
          /\ running' = 0
          /\ UNCHANGED <<REPLAY_ACTIVE, REPLAY_START_MONO, REPLAY_IDX, REPLAY_COUNT,
                         published, elapsed>>
     ELSE LET t_rel == REPLAY_MESSAGES[REPLAY_IDX + 1].timestamp - BaseTs
              target == StartMonoOrNow + Max0(t_rel)
          IN  IF StillWaiting(target)
              THEN /\ SetTask(t, "sleep_wait", t_rel, target)
                   /\ running' = 0
                   /\ UNCHANGED <<REPLAY_ACTIVE, REPLAY_START_MONO, REPLAY_IDX,
                                  REPLAY_COUNT, published, elapsed>>
              ELSE AfterWait(t)
  /\ last' = Event("runner", "loop", NoPayload, "")
  /\ UNCHANGED <<REPLAY_PAUSED, REPLAY_TOPICS, REPLAY_FILE, REPLAY_TASK, REPLAY_BASE_TS,
                 REPLAY_MESSAGES, ready, draining, mono, stopped, restarted, paused_in,
                 anchor, ever_paused>>
  /\ UNCHANGED <<engineState, inputs, recorderVars, observerVars>>

\* the timer of an asyncio.sleep fires: the task goes on from its await
runner_wake(t) ==
  /\ running = 0
  /\ tasks[t].pc \in SleepPcs
  /\ ~tasks[t].cancelled
  /\ IF tasks[t].pc = "sleep_wait"
     THEN IF StillWaiting(tasks[t].target)
          THEN UNCHANGED <<tasks, running, REPLAY_ACTIVE, REPLAY_START_MONO,
                           REPLAY_IDX, REPLAY_COUNT, published, elapsed>>
          ELSE AfterWait(t)
     ELSE /\ SetTask(t, "loop", 0, 0)
          /\ running' = t
          /\ UNCHANGED <<REPLAY_ACTIVE, REPLAY_START_MONO, REPLAY_IDX, REPLAY_COUNT,
                         published, elapsed>>
  /\ last' = Event("runner", "wake", NoPayload, "")
  /\ UNCHANGED <<REPLAY_PAUSED, REPLAY_TOPICS, REPLAY_FILE, REPLAY_TASK, REPLAY_BASE_TS,
                 REPLAY_MESSAGES, ready, draining, mono, stopped, restarted, paused_in,
                 anchor, ever_paused>>
  /\ UNCHANGED <<engineState, inputs, recorderVars, observerVars>>

\* the monotonic clock, read between the steps of the event loop
AdvanceMono ==
  /\ running = 0
  /\ mono < MonoStart + MaxMonoSteps
  /\ mono' = mono + 1
  /\ last' = Event("advance_mono", "", NoPayload, "")
  /\ elapsed' = IF REPLAY_PAUSED THEN elapsed ELSE elapsed + 1
  /\ UNCHANGED <<sessionVars, loopVars, published, stopped, restarted, paused_in, anchor,
                 ever_paused>>
  /\ UNCHANGED <<engineState, inputs, recorderVars, observerVars>>

\* the monotonic clock while the loop sleeps towards a target that lies ahead
\* (line 655: time.monotonic() < target)
AdvanceMonoToTarget ==
  /\ running = 0
  /\ \E t \in DOMAIN tasks :
       tasks[t].pc = "sleep_wait" /\ ~tasks[t].cancelled /\ mono < tasks[t].target
  /\ mono' = mono + 1
  /\ last' = Event("advance_mono", "target", NoPayload, "")
  /\ elapsed' = IF REPLAY_PAUSED THEN elapsed ELSE elapsed + 1
  /\ UNCHANGED <<sessionVars, loopVars, published, stopped, restarted, paused_in, anchor,
                 ever_paused>>
  /\ UNCHANGED <<engineState, inputs, recorderVars, observerVars>>

InitReplay ==
  /\ REPLAY_ACTIVE = FALSE
  /\ REPLAY_PAUSED = FALSE
  /\ REPLAY_TOPICS = {}
  /\ REPLAY_FILE = "None"
  /\ REPLAY_TASK = 0
  /\ REPLAY_START_MONO = NoneV
  /\ REPLAY_BASE_TS = NoneV
  /\ REPLAY_MESSAGES = <<>>
  /\ REPLAY_COUNT = 0
  /\ REPLAY_IDX = 0
  /\ mono = MonoStart
  /\ tasks = <<>>
  /\ ready = <<>>
  /\ running = 0
  /\ draining = FALSE
  /\ published = <<>>
  /\ stopped = FALSE
  /\ restarted = FALSE
  /\ paused_in = 0
  /\ anchor = 0
  /\ elapsed = 0
  /\ ever_paused = FALSE

(***************************************************************************)
(* Recorder (main.py 124-130, 220-232 and 543-634).  A payload is the      *)
(* sequence of its bytes.  The recorder reads the bytes as they arrived;   *)
(* the handlers read what json.loads makes of them.                        *)
(***************************************************************************)
RawObj == <<123, 125>>
RawOne == <<49>>
RawList == <<91, 93>>
RawListObj == <<91, 123, 125, 93>>
RawBrace == <<123>>
RawFF == <<255>>

\* bytes.decode() of line 215 on 7-bit text and on a lone byte 0x80..0xFF
Utf8Ok(raw) == \A i \in DOMAIN raw : raw[i] < 128

\* json.loads on the texts "{}", "[]", "[{}]" and one digit; anything else
\* the model feeds it is rejected
JsonKind(raw) ==
  IF raw = <<123, 125>> THEN "obj"
  ELSE IF raw = <<91, 93>> THEN "list"
  ELSE IF raw = <<91, 123, 125, 93>> THEN "list1"
  ELSE IF Len(raw) = 1 /\ raw[1] >= 48 /\ raw[1] <= 57 THEN "nonobj"
  ELSE "nojson"

\* the payload the handlers see: an object without fields is every field absent
json_loads(topic, raw) ==
  IF ~Utf8Ok(raw) THEN NotUtf8
  ELSE CASE JsonKind(raw) = "nojson" -> NotJson
         [] JsonKind(raw) = "list" /\ topic \in RadarTopics -> RadarList(<<>>)
         [] JsonKind(raw) = "list1" /\ topic \in RadarTopics ->
              RadarList(<<[distance |-> NoneV, bearing |-> NoneV, heading |-> NoneV]>>)
         [] JsonKind(raw) \in {"nonobj", "list", "list1"} -> NonObject
         [] JsonKind(raw) = "obj" /\ topic \in GpsTopics ->
              GpsPayload(NoneV, NoneV, NoneV, NoneV, NoneV, NoneV, NoneV, NoneV, NoneV)
         [] JsonKind(raw) = "obj" /\ topic \in ImuTopics ->
              ImuPayload(NoneV, NoneV, NoneV, NoneV, NoneV, NoneV, NoneV, NoneV, NoneV,
                         NoneV)
         [] JsonKind(raw) = "obj" /\ topic = TOPIC_SENSOR_TRACK ->
              TrackPayload(NoneV, NoneV, NoneV)
         [] JsonKind(raw) = "obj" /\ topic \in RadarTopics -> RadarObject(NoneV)
         [] OTHER -> BatteryPayload(NoneV, NoneV)

\* base64.b64encode (line 227) as sextets
RECURSIVE b64encode(_)
b64encode(b) ==
  IF b = <<>> THEN <<>>
  ELSE IF Len(b) = 1
  THEN <<b[1] \div 4, (b[1] % 4) * 16, B64Pad, B64Pad>>
  ELSE IF Len(b) = 2
  THEN <<b[1] \div 4, (b[1] % 4) * 16 + b[2] \div 16, (b[2] % 16) * 4, B64Pad>>
  ELSE <<b[1] \div 4, (b[1] % 4) * 16 + b[2] \div 16, (b[2] % 16) * 4 + b[3] \div 64,
         b[3] % 64>> \o b64encode(SubSeq(b, 4, Len(b)))

\* _sanitize_filename (lines 543-550) on the names the model uses
_sanitize_filename(name) ==
  CASE name = "" -> "recording.json"
    [] name = "run 1" -> "run_1.json"
    [] OTHER -> name

\* a faulty hook that records whatever the paused flag says
RecordsIgnoringPause(topic) ==
  RECORDING_ACTIVE /\ (RECORDING_TOPICS = {} \/ topic \in RECORDING_TOPICS)

\* the conditions of lines 222 and 224
Records(topic) ==
  /\ RECORDING_ACTIVE
  /\ ~RECORDING_PAUSED
  /\ (RECORDING_TOPICS = {} \/ topic \in RECORDING_TOPICS)

\* a faulty hook that puts the newest message first
recording_hook_Prepend(topic, raw) ==
  IF Records(topic)
  THEN /\ RECORDING_BUFFER' = <<Message(now, topic, b64encode(raw))>> \o RECORDING_BUFFER
       /\ RECORDING_COUNT' = RECORDING_COUNT + 1
  ELSE UNCHANGED <<RECORDING_BUFFER, RECORDING_COUNT>>

\* lines 220-232
recording_hook(topic, raw) ==
  IF Records(topic)
  THEN /\ RECORDING_BUFFER' = Append(RECORDING_BUFFER, Message(now, topic, b64encode(raw)))
       /\ RECORDING_COUNT' = RECORDING_COUNT + 1
  ELSE UNCHANGED <<RECORDING_BUFFER, RECORDING_COUNT>>

\* what the recorder was doing when a message arrived
Arrival(topic, raw) ==
  [topic |-> topic, payload |-> raw, active |-> RECORDING_ACTIVE,
   paused |-> RECORDING_PAUSED, filter |-> RECORDING_TOPICS, file |-> RECORDING_FILE]

\* _on_message on the bytes of a message: decoding, the recording hook, then
\* the branch of the topic
_on_message(topic, raw) ==
  /\ on_message(topic, json_loads(topic, raw))
  /\ IF json_loads(topic, raw).kind \in {"nojson", "notutf8"}
     THEN UNCHANGED <<RECORDING_BUFFER, RECORDING_COUNT>>
     ELSE recording_hook(topic, raw)
  /\ arrivals' = Append(arrivals, Arrival(topic, raw))
  /\ UNCHANGED <<RECORDING_ACTIVE, RECORDING_PAUSED, RECORDING_TOPICS, RECORDING_FILE,
                 RECORDING_START_TS, disk, flushed>>

\* a list given as the topics of a recording
ListV(v) == [t |-> "list", v |-> v]

\* lines 584-587: a non-empty list is the filter, anything else is None
topics_list(topics) ==
  IF topics.t = "list" /\ topics.v # <<>>
  THEN {topics.v[i] : i \in DOMAIN topics.v}
  ELSE {}

\* lines 580-598
recording_start(name, topics) ==
  /\ RECORDING_FILE' = _sanitize_filename(name)
  /\ RECORDING_BUFFER' = <<>>
  /\ RECORDING_TOPICS' = topics_list(topics)
  /\ RECORDING_START_TS' = Num(now)
  /\ RECORDING_COUNT' = 0
  /\ RECORDING_ACTIVE' = TRUE
  /\ RECORDING_PAUSED' = FALSE
  /\ arrivals' = <<>>
  /\ flushed' = "None"
  /\ last' = Event("recording_start", _sanitize_filename(name), NoPayload, "ok")
  /\ UNCHANGED <<engineState, disk>>

\* recording_start next to the broker's thread: the call of time.time() in
\* line 593 lets the thread run, so the start is two steps.  Lines 583-592:
\* the file, a fresh buffer and the filter
recording_start_reset(name, topics) ==
  /\ starting = NoPayload
  /\ RECORDING_FILE' = _sanitize_filename(name)
  /\ RECORDING_BUFFER' = <<>>
  /\ RECORDING_TOPICS' = topics_list(topics)
  /\ arrivals' = <<>>
  /\ flushed' = "None"
  /\ starting' = [kind |-> "recording", topics |-> topics]
  /\ last' = Event("recording_start_reset", _sanitize_filename(name), NoPayload, "")
  /\ UNCHANGED <<RECORDING_ACTIVE, RECORDING_PAUSED, RECORDING_START_TS, RECORDING_COUNT,
                 disk, engineState>>

\* lines 593-598: the start time, the count, the flags and the response
recording_start_finish ==
  /\ starting.kind = "recording"
  /\ RECORDING_START_TS' = Num(now)
  /\ RECORDING_COUNT' = 0
  /\ RECORDING_ACTIVE' = TRUE
  /\ RECORDING_PAUSED' = FALSE
  /\ starting' = NoPayload
  /\ last' = Event("recording_start", RECORDING_FILE, starting, "ok")
  /\ UNCHANGED <<RECORDING_FILE, RECORDING_BUFFER, RECORDING_TOPICS, disk, arrivals,
                 flushed, engineState>>

\* lines 601-606
recording_pause ==
  /\ IF RECORDING_ACTIVE THEN RECORDING_PAUSED' = TRUE ELSE UNCHANGED RECORDING_PAUSED
  /\ last' = Event("recording_pause", "", NoPayload, "ok")
  /\ UNCHANGED <<RECORDING_ACTIVE, RECORDING_TOPICS, RECORDING_BUFFER, RECORDING_FILE,
                 RECORDING_START_TS, RECORDING_COUNT, disk, arrivals, flushed,
                 engineState>>

\* lines 609-614
recording_resume ==
  /\ IF RECORDING_ACTIVE THEN RECORDING_PAUSED' = FALSE ELSE UNCHANGED RECORDING_PAUSED
  /\ last' = Event("recording_resume", "", NoPayload, "ok")
  /\ UNCHANGED <<RECORDING_ACTIVE, RECORDING_TOPICS, RECORDING_BUFFER, RECORDING_FILE,
                 RECORDING_START_TS, RECORDING_COUNT, disk, arrivals, flushed,
                 engineState>>

\* the response of recording_stop: the file name is the event's argument
StopReply(count) == [kind |-> "reply", count |-> count]

\* SHARED_DIR after a file was written
WriteFile(name, file) ==
  [n \in DOMAIN disk \cup {name} |-> IF n = name THEN file ELSE disk[n]]

\* lines 622-627: the write and the response.  io is what the file system
\* does: "ok", "open" when open() raises and the file is untouched, "dump"
\* when the write breaks off and leaves a file json.load rejects
StopWrites(io) ==
  CASE io = "ok" ->
         /\ disk' = WriteFile(RECORDING_FILE, [json |-> TRUE, messages |-> RECORDING_BUFFER])
         /\ last' = Event("recording_stop", RECORDING_FILE,
                          StopReply(Len(RECORDING_BUFFER)), "ok")
    [] io = "dump" ->
         /\ disk' = WriteFile(RECORDING_FILE, [json |-> FALSE, messages |-> <<>>])
         /\ last' = Event("recording_stop", RECORDING_FILE, StopReply(0), "failed")
    [] io = "open" ->
         /\ UNCHANGED disk
         /\ last' = Event("recording_stop", RECORDING_FILE, StopReply(0), "failed")

\* a faulty stop that leaves the buffer to the next session
recording_stop_KeepsBuffer(io) ==
  IF ~RECORDING_ACTIVE
  THEN /\ io = "ok"
       /\ last' = Event("recording_stop", "None", StopReply(0), "ok")
       /\ UNCHANGED <<recordingVars, disk, arrivals, flushed, engineState>>
  ELSE /\ StopWrites(io)
       /\ flushed' = IF io = "ok" THEN RECORDING_FILE ELSE "None"
       /\ RECORDING_ACTIVE' = FALSE
       /\ RECORDING_FILE' = "None"
       /\ UNCHANGED <<RECORDING_BUFFER, RECORDING_PAUSED, RECORDING_TOPICS,
                      RECORDING_START_TS, RECORDING_COUNT, arrivals, engineState>>

\* lines 617-634
recording_stop(io) ==
  IF ~RECORDING_ACTIVE
  THEN /\ io = "ok"
       /\ last' = Event("recording_stop", "None", StopReply(0), "ok")
       /\ UNCHANGED <<recordingVars, disk, arrivals, flushed, engineState>>
  ELSE /\ StopWrites(io)
       /\ flushed' = IF io = "ok" THEN RECORDING_FILE ELSE "None"
       /\ RECORDING_ACTIVE' = FALSE
       /\ RECORDING_BUFFER' = <<>>
       /\ RECORDING_FILE' = "None"
       /\ UNCHANGED <<RECORDING_PAUSED, RECORDING_TOPICS, RECORDING_START_TS,
                      RECORDING_COUNT, arrivals, engineState>>

\* recording_stop next to the broker's thread: open() and json.dump() let
\* the thread run, so the stop is two steps.  Lines 617-625: the buffer is
\* copied and the copy written
recording_stop_write ==
  /\ stopping = NoPayload
  /\ RECORDING_ACTIVE
  /\ disk' = WriteFile(RECORDING_FILE, [json |-> TRUE, messages |-> RECORDING_BUFFER])
  /\ stopping' = [kind |-> "stop", count |-> Len(RECORDING_BUFFER)]
  /\ last' = Event("recording_stop_write", RECORDING_FILE, NoPayload, "")
  /\ UNCHANGED <<recordingVars, arrivals, flushed, engineState>>

\* lines 628-634: the finally block and the response
recording_stop_finally ==
  /\ stopping # NoPayload
  /\ flushed' = RECORDING_FILE
  /\ RECORDING_ACTIVE' = FALSE
  /\ RECORDING_BUFFER' = <<>>
  /\ RECORDING_FILE' = "None"
  /\ stopping' = NoPayload
  /\ last' = Event("recording_stop", RECORDING_FILE, StopReply(stopping.count), "ok")
  /\ UNCHANGED <<RECORDING_PAUSED, RECORDING_TOPICS, RECORDING_START_TS, RECORDING_COUNT,
                 disk, arrivals, engineState>>

InitRecorder ==
  /\ RECORDING_ACTIVE = FALSE
  /\ RECORDING_PAUSED = FALSE
  /\ RECORDING_TOPICS = {}
  /\ RECORDING_BUFFER = <<>>
  /\ RECORDING_FILE = "None"
  /\ RECORDING_START_TS = NoneV
  /\ RECORDING_COUNT = 0
  /\ disk = SHARED_DIR
  /\ arrivals = <<>>
  /\ flushed = "None"

\* time.time() between two messages of a recording, one second at a time
AdvanceSecond ==
  /\ now < MaxSeconds
  /\ now' = now + 1
  /\ last' = Event("advance_second", "", NoPayload, "")
  /\ UNCHANGED <<navVars, healthVars, liveTimeVars, simVars, SYSTEM_STATE,
                 LAST_MESSAGE_TIME, inputs, replayVars, recorderVars, observerVars>>

RecordingNames == {"r.json", "run 1"}
RecordingFilters == {NoneV, ListV(<<TOPIC_SIM_GPS>>)}
GivenTopics == RecordingFilters \cup {ListV(<<>>), StrV}
RoutedTopics == {TOPIC_SENSOR_GPS, TOPIC_SIM_GPS}
RoutedPayloads == {RawObj, RawOne, RawBrace, RawFF}
StopOutcomes == {"ok", "open", "dump"}
RoundTripPayloads == {RawObj, RawBrace}
RoundTripName == "run 1"

(***************************************************************************)
(* Observers (main.py 72, 512-540 and 778-786).  The tick builds the       *)
(* snapshot and hands one send_json per observer to asyncio.gather; while  *)
(* it awaits them the endpoints of the observers run too.  After the last  *)
(* delivery ended the tick discards the observers whose delivery raised.   *)
(***************************************************************************)
Observers == {"w1", "w2", "w3"}

NoResults == [ws \in {} |-> "pending"]
InFlight == DOMAIN results # {}

\* lines 780-781: accept, then WEBSOCKETS.add(ws)
websocket_connect(ws) ==
  /\ ws \notin WEBSOCKETS
  /\ WEBSOCKETS' = WEBSOCKETS \cup {ws}
  /\ last' = Event("connect", ws, NoPayload, "")
  /\ UNCHANGED <<engineState, results, data, delivered, ingestVars>>

\* lines 785-786: WebSocketDisconnect, then WEBSOCKETS.discard(ws)
websocket_disconnect(ws) ==
  /\ ws \in WEBSOCKETS
  /\ WEBSOCKETS' = WEBSOCKETS \ {ws}
  /\ last' = Event("disconnect", ws, NoPayload, "")
  /\ UNCHANGED <<engineState, results, data, delivered, ingestVars>>

\* lines 464-533 with observers connected: the states, the snapshot and
\* sockets = list(WEBSOCKETS), up to the await of the deliveries
broadcast_send ==
  /\ ~InFlight
  /\ WEBSOCKETS # {}
  /\ broadcast_tick
  /\ data' = [last_message_time |-> LAST_MESSAGE_TIME,
              system_state |-> SYSTEM_STATE',
              sensor_states |-> SENSOR_STATES',
              sensor_last |-> [imu |-> SENSOR_IMU_LAST_TIME, gps |-> SENSOR_GPS_LAST_TIME]]
  /\ results' = [ws \in WEBSOCKETS |-> "pending"]
  /\ UNCHANGED <<WEBSOCKETS, delivered, ingestVars>>

\* what json.dumps(data) reads: the values stored in data and, through the
\* reference data["sensors"], STATE as it is now
Serialized == [sensors |-> NAV_STATE, snapshot |-> data]

\* ws.send_json(data) of one observer; outcome is "sent", or "failed" when
\* the connection is closed or broken and the send raises
send_json(ws, outcome) ==
  /\ ws \in DOMAIN results
  /\ results[ws] = "pending"
  /\ results' = [results EXCEPT ![ws] = outcome]
  /\ delivered' = [delivered EXCEPT ![ws] = IF outcome = "sent" THEN Serialized ELSE @]
  /\ last' = Event("send_json", ws, NoPayload, outcome)
  /\ UNCHANGED <<engineState, WEBSOCKETS, data, ingestVars>>

\* a faulty pruning that drops every observer of a tick in which one failed
FailedAny(res) ==
  IF \E ws \in DOMAIN res : res[ws] = "failed" THEN DOMAIN res ELSE {}

\* lines 534-535: the observers whose result is an exception
Failed(res) == {ws \in DOMAIN res : res[ws] = "failed"}

\* lines 534-539, after gather returned
broadcast_prune ==
  /\ InFlight
  /\ \A ws \in DOMAIN results : results[ws] # "pending"
  /\ WEBSOCKETS' = WEBSOCKETS \ Failed(results)
  /\ results' = NoResults
  /\ last' = Event("prune", "", [kind |-> "results", results |-> results], "")
  /\ UNCHANGED <<engineState, data, delivered, ingestVars>>

\* the part of the shared state that only ingestion writes
Instant(sensors, last_message_time) ==
  [sensors |-> sensors, last_message_time |-> last_message_time]

\* _on_message runs in the thread of the MQTT client (loop_start, line 767)
\* and holds no lock: the interpreter may hand over to the event loop at the
\* call of line 256.  By then a position message has stamped the receipt
\* times and stored latitude and longitude (lines 206-254).
ingest_begin(topic, p) ==
  /\ handling = NoPayload
  /\ topic \in GpsTopics
  /\ p.kind = "obj"
  /\ ~GpsGated(topic)
  /\ LAST_MESSAGE_TIME' = Num(now)
  /\ IF topic = TOPIC_SENSOR_GPS
     THEN /\ ESP32_LAST_MESSAGE_TIME' = Num(now)
          /\ SENSOR_GPS_LAST_TIME' = Num(now)
     ELSE UNCHANGED <<ESP32_LAST_MESSAGE_TIME, SENSOR_GPS_LAST_TIME>>
  /\ NAV_STATE' = [NAV_STATE EXCEPT !.latitude = p.lat, !.longitude = p.lon]
  /\ handling' = [kind |-> "msg", topic |-> topic, payload |-> p]
  /\ last' = Event("msg_begin", topic, p, "")
  /\ UNCHANGED <<now, _prev_gps, _prev_imu_ts, _est_velocity, _est_heading,
                 _radar_tracks_internal, healthVars, SENSOR_IMU_LAST_TIME, simVars,
                 SYSTEM_STATE, instants, starting, stopping, neom8n, WEBSOCKETS, results, data,
                 delivered>>

\* the rest of the handler (lines 256-316): what was stored already is stored
\* again with the same values
ingest_end ==
  /\ handling # NoPayload
  /\ on_message(handling.topic, handling.payload)
  /\ handling' = NoPayload
  /\ instants' = instants \cup {Instant(NAV_STATE', LAST_MESSAGE_TIME')}
  /\ UNCHANGED <<starting, stopping, neom8n, WEBSOCKETS, results, data, delivered>>

(***************************************************************************)
(* A live position message in the broker's thread next to a simulation     *)
(* start in the control task (main.py 234-316 and 848-857).  The           *)
(* interpreter switches threads at calls, so a step runs from one call to  *)
(* a later one.                                                            *)
(***************************************************************************)
Started == [kind |-> "started"]

\* lines 206-240: the payload is decoded, the gate is read and time.time()
\* has returned
live_gps_gate(p) ==
  /\ handling = NoPayload
  /\ p.kind = "obj"
  /\ LAST_MESSAGE_TIME' = Num(now)
  /\ IF GpsGated(TOPIC_SENSOR_GPS)
     THEN /\ handling' = NoPayload
          /\ last' = Event("msg", TOPIC_SENSOR_GPS, p, "dropped")
     ELSE /\ handling' = [kind |-> "gated", topic |-> TOPIC_SENSOR_GPS, payload |-> p,
                          time |-> now]
          /\ last' = Event("msg_gate", TOPIC_SENSOR_GPS, p, "")
  /\ UNCHANGED <<now, navVars, healthVars, liveTimeVars, simVars, SYSTEM_STATE>>
  /\ UNCHANGED <<instants, starting, stopping, neom8n, WEBSOCKETS, results, data, delivered>>

\* lines 240-242: the last-live times are stored, up to payload.get("lat")
live_gps_stamp ==
  /\ handling.kind = "gated"
  /\ ESP32_LAST_MESSAGE_TIME' = Num(handling.time)
  /\ SENSOR_GPS_LAST_TIME' = Num(handling.time)
  /\ handling' = [handling EXCEPT !.kind = "stamped"]
  /\ last' = Event("msg_stamp", handling.topic, handling.payload, "")
  /\ UNCHANGED <<now, navVars, healthVars, SENSOR_IMU_LAST_TIME, simVars, SYSTEM_STATE,
                 LAST_MESSAGE_TIME>>
  /\ UNCHANGED <<instants, starting, stopping, neom8n, WEBSOCKETS, results, data, delivered>>

\* lines 242-316: the rest of the handler
live_gps_apply ==
  /\ handling.kind = "stamped"
  /\ apply_gps(handling.topic, handling.payload)
  /\ handling' = NoPayload
  /\ UNCHANGED <<now, _prev_imu_ts, _est_velocity, _est_heading, _radar_tracks_internal,
                 _IMU_LAST_VALID, liveTimeVars, simVars, SYSTEM_STATE, LAST_MESSAGE_TIME>>
  /\ UNCHANGED <<instants, starting, stopping, neom8n, WEBSOCKETS, results, data, delivered>>

\* lines 848-854: the gate is set and SENSOR_STATES.get("gps") has returned
sim_gps_begin(ctrl) ==
  /\ starting = NoPayload
  /\ ctrl \in {"VECTOR", "ROUTE"}
  /\ SIM_GPS_ACTIVE' = TRUE
  /\ starting' = [kind |-> "start", state |-> SENSOR_STATES.gps]
  /\ last' = Event("sim_gps_begin", ctrl, NoPayload, "")
  /\ UNCHANGED <<now, navVars, healthVars, liveTimeVars, SIM_IMU_ACTIVE, _BASELINE_STATE,
                 _BASELINE_LAST_TS, SYSTEM_STATE, LAST_MESSAGE_TIME>>
  /\ UNCHANGED <<handling, instants, stopping, neom8n, WEBSOCKETS, results, data, delivered>>

\* lines 854-856: the baseline is stored and the sensor marked Simulated
sim_gps_end ==
  /\ starting.kind = "start"
  /\ _BASELINE_STATE' = [_BASELINE_STATE EXCEPT !.gps = starting.state]
  /\ _BASELINE_LAST_TS' = [_BASELINE_LAST_TS EXCEPT !.gps = SENSOR_GPS_LAST_TIME]
  /\ SENSOR_STATES' = [SENSOR_STATES EXCEPT !.gps = "Simulated"]
  /\ starting' = Started
  /\ last' = Event("sim_gps", "START", NoPayload, "")
  /\ UNCHANGED <<now, navVars, _IMU_LAST_VALID, _GPS_LAST_VALID, liveTimeVars,
                 SIM_GPS_ACTIVE, SIM_IMU_ACTIVE, SYSTEM_STATE, LAST_MESSAGE_TIME>>
  /\ UNCHANGED <<handling, instants, stopping, neom8n, WEBSOCKETS, results, data, delivered>>

InitObservers ==
  /\ WEBSOCKETS = {}
  /\ results = NoResults
  /\ data = NoPayload
  /\ delivered = [ws \in Observers |-> NoPayload]
  /\ handling = NoPayload
  /\ starting = NoPayload
  /\ stopping = NoPayload
  /\ instants = {Instant(NAV_STATE, LAST_MESSAGE_TIME)}

(***************************************************************************)
(* The GPS simulator (simulators/gps_sim/lib/gps_sim.py, class NEOM8N).    *)
(* Times are in ticks of half a nanosecond, so that the 1e-9 s of the      *)
(* monotonic-time checks is Tolerance ticks.  The truth position is a      *)
(* function of _t, the time the internal motion model has been integrated  *)
(* to, and the measurement a sample returns changes no field.              *)
(***************************************************************************)
\* a faulty sample that records the time before it checks it
sample_StampFirst(t, motion_provider) ==
  /\ IF IsNone(neom8n._dt)
     THEN /\ UNCHANGED neom8n
          /\ last' = Event("sample", "", SampleCall(t, motion_provider), "RuntimeError")
     ELSE /\ neom8n' = [neom8n EXCEPT !._last_sample_t = Num(t)]
          /\ last' = Event("sample", "", SampleCall(t, motion_provider),
                           IF ~IsNone(neom8n._last_sample_t)
                              /\ t < neom8n._last_sample_t.v - Tolerance
                           THEN "ValueError" ELSE "ok")
  /\ UNCHANGED <<now, navVars, healthVars, liveTimeVars, simVars, SYSTEM_STATE,
                 LAST_MESSAGE_TIME, inputs, replayVars, recorderVars, WEBSOCKETS,
                 results, data, delivered, handling, instants, starting, stopping>>

\* lines 482-533 (the rest of sample builds the measurement)
sample(t, motion_provider) ==
  /\ CASE IsNone(neom8n._dt) ->
            /\ UNCHANGED neom8n
            /\ last' = Event("sample", "", SampleCall(t, motion_provider), "RuntimeError")
       [] ~IsNone(neom8n._dt) /\ ~IsNone(neom8n._last_sample_t)
          /\ t < neom8n._last_sample_t.v - Tolerance ->
            /\ UNCHANGED neom8n
            /\ last' = Event("sample", "", SampleCall(t, motion_provider), "ValueError")
       [] OTHER ->
            IF motion_provider
            THEN /\ neom8n' = [neom8n EXCEPT !._last_sample_t = Num(t)]
                 /\ last' = Event("sample", "", SampleCall(t, motion_provider), "ok")
            ELSE LET dt == t - neom8n._t
                 IN  IF dt < 0 - Tolerance
                     THEN /\ UNCHANGED neom8n
                          /\ last' = Event("sample", "", SampleCall(t, motion_provider),
                                           "ValueError")
                     ELSE /\ neom8n' = [neom8n EXCEPT
                               !._t = IF dt > 0 THEN t ELSE @,
                               !._last_sample_t = Num(t)]
                          /\ last' = Event("sample", "", SampleCall(t, motion_provider),
                                           "ok")
  /\ UNCHANGED <<now, navVars, healthVars, liveTimeVars, simVars, SYSTEM_STATE,
                 LAST_MESSAGE_TIME, inputs, replayVars, recorderVars, WEBSOCKETS,
                 results, data, delivered, handling, instants, starting, stopping>>

\* lines 348-401, on a configuration file the parser accepts: the setter of
\* update_rate_hz (lines 145-153) sets _dt, 1 s at a rate of 1 Hz
read_config ==
  /\ neom8n' = [neom8n EXCEPT !._dt = Num(1)]
  /\ last' = Event("read_config", "", NoPayload, "ok")
  /\ UNCHANGED <<now, navVars, healthVars, liveTimeVars, simVars, SYSTEM_STATE,
                 LAST_MESSAGE_TIME, inputs, replayVars, recorderVars, WEBSOCKETS,
                 results, data, delivered, handling, instants, starting, stopping>>

\* lines 406-416
init_sim ==
  /\ IF IsNone(neom8n._dt)
     THEN /\ UNCHANGED neom8n
          /\ last' = Event("init_sim", "", NoPayload, "RuntimeError")
     ELSE /\ neom8n' = [neom8n EXCEPT !._rng = TRUE, !._t = 0, !._last_sample_t = NoneV]
          /\ last' = Event("init_sim", "", NoPayload, "ok")
  /\ UNCHANGED <<now, navVars, healthVars, liveTimeVars, simVars, SYSTEM_STATE,
                 LAST_MESSAGE_TIME, inputs, replayVars, recorderVars, WEBSOCKETS,
                 results, data, delivered, handling, instants, starting, stopping>>

\* NEOM8N.__init__, lines 57-103
InitGpsSim ==
  neom8n = [_dt |-> NoneV, _rng |-> FALSE, _t |-> 0, _last_sample_t |-> NoneV]

\* an input is ingested while the budget of the behaviour lasts
Input(A) ==
  inputs < MaxInputs /\ inputs' = inputs + 1 /\ A /\ UNCHANGED <<replayVars, recorderVars, observerVars>>

Next ==
  \/ \E p \in LiveGpsPayloads : Input(on_message(TOPIC_SENSOR_GPS, p))
  \/ \E p \in SimGpsPayloads : Input(on_message(TOPIC_SIM_GPS, p))
  \/ \E p \in LiveImuPayloads : Input(on_message(TOPIC_SENSOR_IMU, p))
  \/ \E p \in SimImuPayloads : Input(on_message(TOPIC_SIM_IMU, p))
  \/ \E p \in BatteryPayloads : Input(on_message(TOPIC_SENSOR_BATTERY, p))
  \/ \E ctrl \in ImuControls : Input(sim_imu(ctrl))
  \/ \E ctrl \in GpsControls : Input(sim_gps(ctrl))
  \/ broadcast_tick /\ UNCHANGED <<inputs, replayVars, recorderVars, observerVars>>
  \/ AdvanceTime /\ UNCHANGED <<inputs, replayVars, recorderVars, observerVars>>

Init ==
  InitEngine /\ InitReplay /\ InitRecorder /\ InitObservers /\ InitGpsSim /\ inputs = 0

Spec == Init /\ [][Next]_vars

NextReplay ==
  \/ \E name \in ReplayNames, topics \in ReplayFilters : replay_start(name, topics)
  \/ replay_pause
  \/ replay_resume
  \/ replay_stop
  \/ \E t \in DOMAIN tasks : runner_begin(t)
  \/ \E t \in DOMAIN tasks : runner_cancelled(t)
  \/ \E t \in DOMAIN tasks : runner_loop(t)
  \/ \E t \in DOMAIN tasks : runner_wake(t)
  \/ AdvanceMono

SpecReplay == Init /\ [][NextReplay]_vars

\* time.time() between two radar messages, one track lifetime at a time
AdvanceTrackTime ==
  /\ now + TRACK_TIMEOUT <= MaxTime
  /\ now' = now + TRACK_TIMEOUT
  /\ last' = Event("advance_track_time", "", NoPayload, "")
  /\ UNCHANGED <<navVars, healthVars, liveTimeVars, simVars, SYSTEM_STATE,
                 LAST_MESSAGE_TIME, inputs, replayVars, recorderVars, observerVars>>

Detection(distance, bearing, heading) ==
  TrackPayload(Num(distance), Num(bearing), Num(heading))

\* detections 0, 5 and 10 m out on one bearing and one 6 degrees off it, a
\* detection without heading and one whose distance is no number
TrackPayloads ==
  {Detection(0, 0, 0), Detection(5, 0, 0), Detection(10, 0, 0), Detection(5, 6, 0),
   TrackPayload(Num(0), Num(0), NoneV), TrackPayload(StrV, Num(0), Num(0))}

ListedTrack(distance, bearing, heading) ==
  [distance |-> distance, bearing |-> bearing, heading |-> heading]

RadarPayloads ==
  {RadarList(<<ListedTrack(Num(0), Num(0), Num(0)), ListedTrack(Num(5), NoneV, Num(0))>>),
   RadarList(<<ListedTrack(Num(10), Num(0), Num(0))>>),
   RadarList(<<ListedTrack(StrV, Num(0), Num(0))>>),
   RadarObject(NoneV), NonObject}

NextRadar ==
  \/ \E p \in TrackPayloads : Input(on_message(TOPIC_SENSOR_TRACK, p))
  \/ \E topic \in RadarTopics, p \in RadarPayloads : Input(on_message(topic, p))
  \/ broadcast_tick /\ UNCHANGED <<inputs, replayVars, recorderVars, observerVars>>
  \/ AdvanceTrackTime

SpecRadar == Init /\ [][NextRadar]_vars

\* a step of the recorder while the budget of the behaviour lasts
Recorded(A) ==
  inputs < MaxInputs /\ inputs' = inputs + 1 /\ A /\ UNCHANGED <<replayVars, observerVars>>

NextRecorder ==
  \/ \E topic \in RoutedTopics, raw \in RoutedPayloads : Recorded(_on_message(topic, raw))
  \/ \E name \in RecordingNames, topics \in RecordingFilters :
       Recorded(recording_start(name, topics))
  \/ Recorded(recording_pause)
  \/ Recorded(recording_resume)
  \/ \E io \in StopOutcomes : Recorded(recording_stop(io))

SpecRecorder == Init /\ [][NextRecorder]_vars

\* observers come and go while the Broadcaster ticks; deliveries succeed or
\* fail one by one
NextObservers ==
  \/ \E ws \in Observers : websocket_connect(ws) /\ UNCHANGED <<inputs, replayVars, recorderVars>>
  \/ \E ws \in Observers : websocket_disconnect(ws) /\ UNCHANGED <<inputs, replayVars, recorderVars>>
  \/ ~InFlight /\ WEBSOCKETS = {} /\ broadcast_tick
       /\ UNCHANGED <<inputs, replayVars, recorderVars, observerVars>>
  \/ broadcast_send /\ UNCHANGED <<inputs, replayVars, recorderVars>>
  \/ \E ws \in Observers, outcome \in {"sent", "failed"} :
       send_json(ws, outcome) /\ UNCHANGED <<inputs, replayVars, recorderVars>>
  \/ broadcast_prune /\ UNCHANGED <<inputs, replayVars, recorderVars>>

SpecObservers == Init /\ [][NextObservers]_vars

\* the MQTT thread ingests up to MaxIngested live position messages while
\* the Broadcaster serves one or two observers
SnapshotObservers == {"w1", "w2"}
SnapshotPayloads == {GpsGood, GpsZeroLat}

NextSnapshot ==
  \/ \E ws \in SnapshotObservers :
       websocket_connect(ws) /\ UNCHANGED <<inputs, replayVars, recorderVars>>
  \/ \E p \in SnapshotPayloads :
       /\ inputs < MaxIngested
       /\ inputs' = inputs + 1
       /\ ingest_begin(TOPIC_SENSOR_GPS, p)
       /\ UNCHANGED <<replayVars, recorderVars>>
  \/ ingest_end /\ UNCHANGED <<inputs, replayVars, recorderVars>>
  \/ broadcast_send /\ UNCHANGED <<inputs, replayVars, recorderVars>>
  \/ \E ws \in Observers : send_json(ws, "sent") /\ UNCHANGED <<inputs, replayVars, recorderVars>>
  \/ broadcast_prune /\ UNCHANGED <<inputs, replayVars, recorderVars>>

SpecSnapshot == Init /\ [][NextSnapshot]_vars

\* one session on a readable recording, paused and resumed at will and never
\* stopped or restarted.  The event loop runs every callback that is ready,
\* the clock reaches the time a sleeping loop waits for, a paused session is
\* resumed, and a loop that is again
\* and again found asleep with the session not paused wakes in such a moment.
ReadableNames == {"a.json", "empty.json"}

NextTerminates ==
  \/ \E name \in ReadableNames, topics \in ReplayFilters :
       REPLAY_TASK = 0 /\ replay_start(name, topics)
  \/ replay_pause
  \/ replay_resume
  \/ \E t \in DOMAIN tasks : runner_begin(t)
  \/ \E t \in DOMAIN tasks : runner_loop(t)
  \/ \E t \in DOMAIN tasks : runner_wake(t)
  \/ AdvanceMono
  \/ AdvanceMonoToTarget

FairTerminates ==
  /\ WF_vars(1 \in DOMAIN tasks /\ runner_begin(1))
  /\ WF_vars(1 \in DOMAIN tasks /\ runner_loop(1))
  /\ SF_vars(1 \in DOMAIN tasks /\ ~REPLAY_PAUSED /\ runner_wake(1))
  /\ SF_vars(REPLAY_PAUSED /\ replay_resume)
  /\ WF_vars(AdvanceMonoToTarget)

SpecTerminates == Init /\ [][NextTerminates]_vars /\ FairTerminates

\* messages arrive in the broker's thread while the event loop starts and
\* stops recordings
StopRacePayloads == {RawObj, RawOne}
Budgeted(A) == inputs < MaxInputs /\ inputs' = inputs + 1 /\ A /\ UNCHANGED replayVars
WhileStopping ==
  <<WEBSOCKETS, results, data, delivered, handling, instants, starting, neom8n>>

NextStopRace ==
  \/ \E topic \in RoutedTopics, raw \in StopRacePayloads :
       Budgeted(_on_message(topic, raw)) /\ UNCHANGED observerVars
  \/ \E topics \in RecordingFilters :
       /\ stopping = NoPayload
       /\ Budgeted(recording_start("r.json", topics))
       /\ UNCHANGED observerVars
  \/ Budgeted(recording_stop_write) /\ UNCHANGED WhileStopping
  \/ recording_stop_finally /\ UNCHANGED <<inputs, replayVars, WhileStopping>>

SpecStopRace == Init /\ [][NextStopRace]_vars

\* recordings started, paused and stopped while messages keep arriving
WhileStarting ==
  <<WEBSOCKETS, results, data, delivered, handling, instants, stopping, neom8n>>

NextStartRace ==
  \/ \E topic \in RoutedTopics, raw \in StopRacePayloads :
       Budgeted(_on_message(topic, raw)) /\ UNCHANGED observerVars
  \/ \E topics \in GivenTopics :
       Budgeted(recording_start_reset("r.json", topics)) /\ UNCHANGED WhileStarting
  \/ recording_start_finish /\ UNCHANGED <<inputs, replayVars, WhileStarting>>
  \/ starting = NoPayload /\ Budgeted(recording_pause) /\ UNCHANGED observerVars
  \/ starting = NoPayload /\ Budgeted(recording_stop("ok")) /\ UNCHANGED observerVars

SpecStartRace == Init /\ [][NextStartRace]_vars

\* the GPS simulator configured, initialised and sampled in any order
\* sample times on both sides of 0 and of the tolerance
SimTimes == (0 - Tolerance - 1)..MaxSimTime

NextGpsSim ==
  \/ read_config
  \/ init_sim
  \/ \E t \in SimTimes, motion_provider \in BOOLEAN : sample(t, motion_provider)

SpecGpsSim == Init /\ [][NextGpsSim]_vars

\* live position messages, one at a time, next to one simulation start
Threads(A) == A /\ UNCHANGED <<replayVars, recorderVars>>

NextSimStart ==
  \/ \E p \in LiveGpsPayloads :
       inputs < MaxIngested /\ inputs' = inputs + 1 /\ Threads(live_gps_gate(p))
  \/ Threads(live_gps_stamp) /\ UNCHANGED inputs
  \/ Threads(live_gps_apply) /\ UNCHANGED inputs
  \/ \E ctrl \in {"VECTOR", "ROUTE"} : Threads(sim_gps_begin(ctrl)) /\ UNCHANGED inputs
  \/ Threads(sim_gps_end) /\ UNCHANGED inputs
  \/ handling = NoPayload /\ AdvanceTime
        /\ UNCHANGED <<inputs, replayVars, recorderVars, observerVars>>

SpecSimStart == Init /\ [][NextSimStart]_vars

\* one session on the recording whose offsets are 0, 1 and 3, paused at will
\* and resumed only when paused
NextSchedule ==
  \/ \E name \in TimedNames, topics \in ReplayFilters :
       REPLAY_TASK = 0 /\ replay_start(name, topics)
  \/ replay_pause
  \/ REPLAY_PAUSED /\ replay_resume
  \/ \E t \in DOMAIN tasks : runner_begin(t)
  \/ \E t \in DOMAIN tasks : runner_loop(t)
  \/ \E t \in DOMAIN tasks : runner_wake(t)
  \/ AdvanceMono
  \/ AdvanceMonoToTarget

SpecSchedule == Init /\ [][NextSchedule]_vars

\* attitude samples stamped by their sender: at rest (zero accelerometer
\* readings, zero gyro rates) and under way (forward acceleration, a turn)
SampleTimes == 1..MaxInputs
ImuZero(ts) ==
  ImuPayload(Num(0), Num(0), Num(0), Num(0), Num(0), Num(0), NoneV, NoneV, NoneV, Num(ts))
ImuUnderWay(ts) ==
  ImuPayload(Num(1), Num(0), Num(0), Num(0), Num(0), Num(90), NoneV, NoneV, NoneV, Num(ts))

NextDeadReckoning ==
  \/ \E topic \in ImuTopics, ts \in SampleTimes : Input(on_message(topic, ImuZero(ts)))
  \/ \E ts \in SampleTimes : Input(on_message(TOPIC_SENSOR_IMU, ImuUnderWay(ts)))
  \/ \E ctrl \in ImuControls : Input(sim_imu(ctrl))

SpecDeadReckoning == Init /\ [][NextDeadReckoning]_vars

\* position, attitude, battery and link-status messages whose timestamps are
\* absent, unreadable, or second 1: later than the receipt at the start,
\* earlier after the clock has moved
Stamps == {NoneV, StrV, Num(1)}
GpsAt(ts) == GpsPayload(Num(1), Num(2), NoneV, NoneV, Num(1), Num(1), Num(5), NoneV, ts)
ImuAt(ts) ==
  ImuPayload(Num(0), Num(0), Num(1), Num(0), Num(0), Num(0), NoneV, NoneV, NoneV, ts)

NextLatency ==
  \/ \E ts \in Stamps : Input(on_message(TOPIC_SENSOR_GPS, GpsAt(ts)))
  \/ \E ts \in Stamps : Input(on_message(TOPIC_SENSOR_IMU, ImuAt(ts)))
  \/ \E ts \in Stamps : Input(on_message(TOPIC_SENSOR_BATTERY, BatteryPayload(Num(1), ts)))
  \/ \E ts \in Stamps :
       Input(on_message(SensorStatus, StatusPayload(Num(0 - 60), StrV, ts)))
  \/ AdvanceTime /\ UNCHANGED <<inputs, replayVars, recorderVars, observerVars>>

SpecLatency == Init /\ [][NextLatency]_vars

\* messages of two topics, decodable and not, with the recorder running
DecodeTopics == {TOPIC_SENSOR_GPS, TOPIC_SENSOR_RADAR}
DecodePayloads == {RawObj, RawListObj, RawBrace, RawFF}

NextDecode ==
  \/ \E topic \in DecodeTopics, raw \in DecodePayloads : Recorded(_on_message(topic, raw))
  \/ Recorded(recording_start("r.json", NoneV))
  \/ AdvanceTime /\ UNCHANGED <<inputs, replayVars, recorderVars, observerVars>>

SpecDecode == Init /\ [][NextDecode]_vars

\* a recording is made, then the replayer is given the file its stop wrote
\* and is left to run without pause or stop
Recording(A) == REPLAY_TASK = 0 /\ inputs < MaxRecorded /\ Recorded(A)

NextRoundTrip ==
  \/ \E topic \in RoutedTopics, raw \in RoundTripPayloads :
       Recording(_on_message(topic, raw))
  \/ \E topics \in RecordingFilters : Recording(recording_start(RoundTripName, topics))
  \/ Recording(recording_pause)
  \/ Recording(recording_resume)
  \/ \E io \in StopOutcomes : Recording(recording_stop(io))
  \/ REPLAY_TASK = 0 /\ AdvanceSecond
  \/ flushed # "None" /\ replay_start(flushed, {})
  \/ \E t \in DOMAIN tasks : runner_begin(t)
  \/ \E t \in DOMAIN tasks : runner_cancelled(t)
  \/ \E t \in DOMAIN tasks : runner_loop(t)
  \/ \E t \in DOMAIN tasks : runner_wake(t)
  \/ REPLAY_TASK # 0 /\ AdvanceMono

SpecRoundTrip == Init /\ [][NextRoundTrip]_vars

\* the replayer on the recording whose offsets are 0, 1 and 3
NextTiming ==
  \/ \E name \in TimedNames, topics \in ReplayFilters : replay_start(name, topics)
  \/ replay_pause
  \/ replay_resume
  \/ replay_stop
  \/ \E t \in DOMAIN tasks : runner_begin(t)
  \/ \E t \in DOMAIN tasks : runner_cancelled(t)
  \/ \E t \in DOMAIN tasks : runner_loop(t)
  \/ \E t \in DOMAIN tasks : runner_wake(t)
  \/ AdvanceMono

SpecTiming == Init /\ [][NextTiming]_vars

(***************************************************************************)
(* Properties of the state engine, checked under Spec.                     *)
(***************************************************************************)

\* C1: a position or attitude message of the origin that the sensor's gate
\* does not select (live while the gate is active, simulated while it is
\* inactive) changes neither NavigationState, nor the sensor health states,
\* nor the validity flags, nor the per-sensor and device last-live
\* timestamps, nor the previous-fix and dead-reckoning memory; and in every
\* state a message of the selected origin is processed (its coordinates or
\* its turn rate are written), so a gate change holds for the next message.
C1_DropsNonSelectedOrigin ==
  [][ /\ ( /\ last'.op = "msg"
           /\ \/ last'.arg = TOPIC_SENSOR_GPS /\ SIM_GPS_ACTIVE
              \/ last'.arg = TOPIC_SIM_GPS /\ ~SIM_GPS_ACTIVE
              \/ last'.arg = TOPIC_SENSOR_IMU /\ SIM_IMU_ACTIVE
              \/ last'.arg = TOPIC_SIM_IMU /\ ~SIM_IMU_ACTIVE )
         => UNCHANGED <<NAV_STATE, SENSOR_STATES, _IMU_LAST_VALID, _GPS_LAST_VALID,
                        SENSOR_IMU_LAST_TIME, SENSOR_GPS_LAST_TIME,
                        ESP32_LAST_MESSAGE_TIME, _prev_gps, _prev_imu_ts,
                        _est_velocity, _est_heading>>
      /\ ( /\ last'.op = "msg"
           /\ last'.payload.kind = "obj"
           /\ \/ last'.arg = TOPIC_SENSOR_GPS /\ ~SIM_GPS_ACTIVE
              \/ last'.arg = TOPIC_SIM_GPS /\ SIM_GPS_ACTIVE )
         => /\ NAV_STATE'.latitude = last'.payload.lat
            /\ NAV_STATE'.longitude = last'.payload.lon
      /\ ( /\ last'.op = "msg"
           /\ last'.payload.kind = "obj"
           /\ \/ last'.arg = TOPIC_SENSOR_IMU /\ ~SIM_IMU_ACTIVE
              \/ last'.arg = TOPIC_SIM_IMU /\ SIM_IMU_ACTIVE
           /\ last'.payload.gz.t = "num" )
         => NAV_STATE'.rate_of_turn = Rad(last'.payload.gz.v)
    ]_vars

\* a live fix (latitude 1) arrives while the position gate is active, after a
\* simulated fix (latitude 3) was applied: the simulated latitude stays
C1_Witness ==
  /\ last.op = "msg"
  /\ last.arg = TOPIC_SENSOR_GPS
  /\ last.payload.lat = Num(1)
  /\ SIM_GPS_ACTIVE
  /\ NAV_STATE.latitude = Num(3)

\* C2: after every simulation-control operation and after every broadcast
\* tick, each sensor's state is Simulated if and only if that sensor's
\* simulation gate is active.
C2_SimulatedIffGateActive ==
  last.op \in {"sim_imu", "sim_gps", "tick"} =>
    /\ SENSOR_STATES.imu = "Simulated" <=> SIM_IMU_ACTIVE
    /\ SENSOR_STATES.gps = "Simulated" <=> SIM_GPS_ACTIVE

\* C3: at the end of a broadcast tick, a sensor whose gate is inactive, that
\* has a last-live timestamp, and whose last live message is more than 10 s
\* old, is Unavailable, whatever state it had before the tick.
C3_HealthTimeout ==
  last.op = "tick" =>
    /\ ( /\ ~SIM_IMU_ACTIVE
         /\ ~IsNone(SENSOR_IMU_LAST_TIME)
         /\ now - SENSOR_IMU_LAST_TIME.v > 10 ) => SENSOR_STATES.imu = "Unavailable"
    /\ ( /\ ~SIM_GPS_ACTIVE
         /\ ~IsNone(SENSOR_GPS_LAST_TIME)
         /\ now - SENSOR_GPS_LAST_TIME.v > 10 ) => SENSOR_STATES.gps = "Unavailable"

\* a tick expires an attitude sensor that a repeated START followed by STOP
\* had left in Simulated with its gate inactive
C3_Witness ==
  /\ last.op = "tick"
  /\ last.before.imu = "Simulated"
  /\ ~SIM_IMU_ACTIVE
  /\ now - SENSOR_IMU_LAST_TIME.v > 10
  /\ SENSOR_STATES.imu = "Unavailable"

\* C4: immediately after a live message is accepted (gate inactive), the
\* sensor's state is Running if the message is valid and Degraded otherwise.
\* A position message is valid iff latitude and longitude are finite non-zero
\* numbers and fix quality, horizontal dilution and satellites used are
\* present; an attitude message is valid iff its six accelerometer and gyro
\* axes are present and finite.  An invalid message never ends in an error.
C4_ValidityDrivesHealth ==
  /\ ( /\ last.op = "msg"
       /\ last.arg = TOPIC_SENSOR_GPS
       /\ ~SIM_GPS_ACTIVE
       /\ last.payload.kind = "obj" )
     => /\ last.result # "raised"
        /\ SENSOR_STATES.gps =
             IF /\ last.payload.lat.t = "num" /\ last.payload.lat.v # 0
                /\ last.payload.lon.t = "num" /\ last.payload.lon.v # 0
                /\ ~IsNone(last.payload.fix)
                /\ ~IsNone(last.payload.hdop)
                /\ ~IsNone(last.payload.sats_used)
             THEN "Running" ELSE "Degraded"
  /\ ( /\ last.op = "msg"
       /\ last.arg = TOPIC_SENSOR_IMU
       /\ ~SIM_IMU_ACTIVE
       /\ last.payload.kind = "obj" )
     => /\ last.result # "raised"
        /\ SENSOR_STATES.imu =
             IF \A i \in 1..6 :
                  <<last.payload.ax, last.payload.ay, last.payload.az,
                    last.payload.gx, last.payload.gy, last.payload.gz>>[i].t = "num"
             THEN "Running" ELSE "Degraded"

\* C5: at the end of every broadcast tick the system health is, by strict
\* precedence, Simulation if a gate is active; else Unavailable if a live
\* device message was received before and none within the last 10 s; else
\* Initializing if both sensors are Not initialized; else OK if both are
\* Running; else Degraded.
C5_SystemHealthAggregation ==
  last.op = "tick" =>
    SYSTEM_STATE =
      IF SIM_IMU_ACTIVE \/ SIM_GPS_ACTIVE THEN "Simulation"
      ELSE IF ~IsNone(ESP32_LAST_MESSAGE_TIME) /\ now - ESP32_LAST_MESSAGE_TIME.v > 10
           THEN "Unavailable"
      ELSE IF SENSOR_STATES.imu = "Not initialized" /\ SENSOR_STATES.gps = "Not initialized"
           THEN "Initializing"
      ELSE IF SENSOR_STATES.imu = "Running" /\ SENSOR_STATES.gps = "Running"
           THEN "OK"
      ELSE "Degraded"

\* only a battery report was ever received, more than 10 s ago: both sensors
\* are Not initialized and the tick reports Unavailable, not Initializing
C5_Witness ==
  /\ last.op = "tick"
  /\ SENSOR_STATES = [imu |-> "Not initialized", gps |-> "Not initialized"]
  /\ ~IsNone(ESP32_LAST_MESSAGE_TIME)
  /\ now - ESP32_LAST_MESSAGE_TIME.v > 10
  /\ SYSTEM_STATE = "Unavailable"

\* C6: a STOP clears the sensor's gate and sets its state to Not initialized
\* if no live message of the sensor was ever accepted; to the state captured
\* at simulation start if the last-live timestamp equals the one captured at
\* start; otherwise to Unavailable if the last live message is more than 10 s
\* old, else to Running if the latest validity is true, else to Degraded.
C6_StopRestoresByBaselineRule ==
  /\ (last.op = "sim_imu" /\ last.arg = "STOP") =>
       /\ ~SIM_IMU_ACTIVE
       /\ SENSOR_STATES.imu =
            IF IsNone(SENSOR_IMU_LAST_TIME) THEN "Not initialized"
            ELSE IF SENSOR_IMU_LAST_TIME = _BASELINE_LAST_TS.imu THEN _BASELINE_STATE.imu
            ELSE IF now - SENSOR_IMU_LAST_TIME.v > 10 THEN "Unavailable"
            ELSE IF _IMU_LAST_VALID = "True" THEN "Running"
            ELSE "Degraded"
  /\ (last.op = "sim_gps" /\ last.arg = "STOP") =>
       /\ ~SIM_GPS_ACTIVE
       /\ SENSOR_STATES.gps =
            IF IsNone(SENSOR_GPS_LAST_TIME) THEN "Not initialized"
            ELSE IF SENSOR_GPS_LAST_TIME = _BASELINE_LAST_TS.gps THEN _BASELINE_STATE.gps
            ELSE IF now - SENSOR_GPS_LAST_TIME.v > 10 THEN "Unavailable"
            ELSE IF _GPS_LAST_VALID = "True" THEN "Running"
            ELSE "Degraded"

\* a position simulation started on a Degraded sensor is stopped more than
\* 10 s after the last live fix: the baseline Degraded is restored, not
\* Unavailable
C6_Witness ==
  /\ last.op = "sim_gps"
  /\ last.arg = "STOP"
  /\ last.before.gps = "Simulated"
  /\ SENSOR_GPS_LAST_TIME = _BASELINE_LAST_TS.gps
  /\ ~IsNone(SENSOR_GPS_LAST_TIME)
  /\ now - SENSOR_GPS_LAST_TIME.v > 10
  /\ SENSOR_STATES.gps = "Degraded"


(***************************************************************************)
(* Properties of the replay session, checked under SpecReplay.             *)
(***************************************************************************)
\* the publish calls of the current session
SessionLog == SelectSeq(published, LAMBDA e : e.session = REPLAY_TASK)

\* the bytes that were recorded behind each base64 text of the recordings
OriginalBytes(payload) ==
  CASE payload = B64_Obj -> <<123, 125>>
    [] payload = B64_One -> <<49>>

\* what the first n loaded messages owe the bus: those whose topic passes
\* the filter and whose payload is base64, in list order, each once
RECURSIVE OwedLog(_)
OwedLog(n) ==
  IF n = 0 THEN <<>>
  ELSE LET msg == REPLAY_MESSAGES[n]
       IN  IF (REPLAY_TOPICS = {} \/ msg.topic \in REPLAY_TOPICS)
              /\ msg.payload \in {B64_Obj, B64_One}
           THEN Append(OwedLog(n - 1),
                       [session |-> REPLAY_TASK, index |-> n - 1,
                        topic |-> msg.topic, payload |-> OriginalBytes(msg.payload)])
           ELSE OwedLog(n - 1)

\* C7: a replay start that finds the earlier session's loop still waiting or
\* paused starts a session that runs: until its messages are exhausted or
\* stop is called, the session stays active.
C7_RestartedSessionRuns ==
  (restarted /\ ~stopped) =>
    (REPLAY_ACTIVE \/ REPLAY_IDX = Len(REPLAY_MESSAGES))

\* C8: within a session each loaded message is republished at most once, in
\* index order, with its topic and its decoded payload; a message whose topic
\* does not pass the filter is never republished; republish count <= index
\* <= number of loaded messages in every state; and the index grows by one
\* per processed message, each step republishing at most that message.
C8_ReplayOrdering ==
  /\ [](/\ REPLAY_COUNT <= REPLAY_IDX
        /\ REPLAY_IDX <= Len(REPLAY_MESSAGES)
        /\ SessionLog = OwedLog(REPLAY_IDX))
  /\ [][ REPLAY_TASK' = REPLAY_TASK =>
           \/ UNCHANGED <<REPLAY_IDX, published>>
           \/ /\ REPLAY_IDX' = REPLAY_IDX + 1
              /\ \/ published' = published
                 \/ /\ Len(published') = Len(published) + 1
                    /\ SubSeq(published', 1, Len(published)) = published
                    /\ published'[Len(published')].index = REPLAY_IDX
     ]_vars

\* the position recording replayed through a position-only filter, to its
\* end: the attitude message was filtered out, the third payload is not
\* base64, one message was republished
C8_Witness ==
  /\ REPLAY_FILE = "a.json"
  /\ REPLAY_TOPICS = {TOPIC_SENSOR_GPS}
  /\ REPLAY_IDX = 3
  /\ REPLAY_COUNT = 1
  /\ SessionLog = <<[session |-> REPLAY_TASK, index |-> 0,
                     topic |-> TOPIC_SENSOR_GPS, payload |-> <<123, 125>>]>>

\* C9: after replay stop returns and until the next successful start the
\* session is inactive, nothing is republished and index and count stay
\* (the remaining messages are discarded); a stop that is called again, or
\* with no session ever started, or after the session completed, changes no
\* session state.
C9_ReplayStop ==
  /\ [](stopped => ~REPLAY_ACTIVE)
  /\ [][ (stopped /\ stopped') =>
           UNCHANGED <<published, REPLAY_IDX, REPLAY_COUNT, REPLAY_MESSAGES>> ]_vars
  /\ [][ ( /\ last'.op = "replay_stop"
           /\ \/ stopped
              \/ REPLAY_TASK = 0
              \/ tasks[REPLAY_TASK].pc = "done" )
         => UNCHANGED <<sessionVars, tasks, ready>> ]_vars

\* stop is called a second time after the cancelled loop has ended, with
\* one message republished and the rest of the recording discarded
C9_Witness ==
  /\ last.op = "replay_stop"
  /\ stopped
  /\ REPLAY_TASK # 0
  /\ tasks[REPLAY_TASK].pc = "done"
  /\ Len(SessionLog) = 1
  /\ REPLAY_IDX < Len(REPLAY_MESSAGES)

\* C10 as stated: from a pause on an active session until resume or stop is
\* called, nothing is republished and index and count do not change.
C10_PauseFreezesProgress ==
  [][ (paused_in # 0 /\ paused_in' # 0) =>
        UNCHANGED <<published, REPLAY_IDX, REPLAY_COUNT>> ]_vars

\* C10, amended: from a pause on an active session until resume, stop or a
\* successful start is called, nothing is republished and index and count
\* do not change.
C10_PauseFreezesSession ==
  [][ ( /\ paused_in # 0
        /\ paused_in = REPLAY_TASK
        /\ paused_in' = REPLAY_TASK' ) =>
        UNCHANGED <<published, REPLAY_IDX, REPLAY_COUNT>> ]_vars

\* the pause arrived while the loop waited for the second message; its due
\* time has passed, the loop woke and rebased, and the index is still 1
C10_Witness ==
  /\ paused_in # 0
  /\ paused_in = REPLAY_TASK
  /\ REPLAY_FILE = "a.json"
  /\ tasks[REPLAY_TASK].pc = "sleep_rebase"
  /\ mono > REPLAY_START_MONO.v
  /\ REPLAY_IDX = 1
  /\ Len(SessionLog) = 1



\* C11: in a session that is never paused, message i is not republished
\* before anchor + max(0, timestamp_i - timestamp_0), where anchor is the
\* monotonic time at which the scheduling loop of the session started.
C11_ReplayTiming ==
  [][(published' # published /\ ~ever_paused) =>
       mono >= anchor + Max0(REPLAY_MESSAGES[REPLAY_IDX + 1].timestamp
                             - REPLAY_MESSAGES[1].timestamp)]_vars


(***************************************************************************)
(* Properties of the recorder, checked under SpecRecorder.                 *)
(***************************************************************************)
\* the message whose handling produced this step
Arrived == arrivals'[Len(arrivals')]
MessageStep == last'.op = "msg" /\ Len(arrivals') = Len(arrivals) + 1
Decodable(payload) == payload.kind \notin {"nojson", "notutf8"}

\* C12: a JSON-decodable routed message is appended to the recording buffer
\* (its topic and its payload in base64, once, at the end, the count raised
\* by one) if and only if the session is active, not paused, and the filter
\* is empty or contains the topic, whatever source arbitration does with the
\* message; in every other case the buffer and the count are unchanged.
C12_RecorderAppendRule ==
  [][(MessageStep /\ Decodable(last'.payload)) =>
       IF RECORDING_ACTIVE /\ ~RECORDING_PAUSED
          /\ (RECORDING_TOPICS = {} \/ Arrived.topic \in RECORDING_TOPICS)
       THEN /\ Len(RECORDING_BUFFER') = Len(RECORDING_BUFFER) + 1
            /\ SubSeq(RECORDING_BUFFER', 1, Len(RECORDING_BUFFER)) = RECORDING_BUFFER
            /\ RECORDING_BUFFER'[Len(RECORDING_BUFFER')].topic = Arrived.topic
            /\ b64decode(RECORDING_BUFFER'[Len(RECORDING_BUFFER')].payload)
                 = [ok |-> TRUE, bytes |-> Arrived.payload]
            /\ RECORDING_COUNT' = RECORDING_COUNT + 1
       ELSE /\ RECORDING_BUFFER' = RECORDING_BUFFER
            /\ RECORDING_COUNT' = RECORDING_COUNT]_vars

\* a message that arbitration dropped was recorded behind an earlier one,
\* under a topic filter
C12_Witness ==
  /\ last.op = "msg"
  /\ last.result = "dropped"
  /\ RECORDING_TOPICS # {}
  /\ Len(RECORDING_BUFFER) >= 2
  /\ RECORDING_BUFFER[Len(RECORDING_BUFFER)].topic = last.arg
  /\ RECORDING_COUNT = Len(RECORDING_BUFFER)

\* C13: stop on an active session writes the buffered messages in order to
\* the target file and reports the file name and the number of buffered
\* messages, or count 0 when the write fails; either way the session is
\* inactive and the buffer empty afterwards.  Stop on an inactive session
\* reports no file and count 0 and changes nothing.
C13_RecorderStop ==
  [][last'.op = "recording_stop" =>
       IF RECORDING_ACTIVE
       THEN /\ last'.arg = RECORDING_FILE
            /\ last'.result = "ok" =>
                 /\ last'.payload.count = Len(RECORDING_BUFFER)
                 /\ disk'[RECORDING_FILE] = [json |-> TRUE, messages |-> RECORDING_BUFFER]
            /\ last'.result # "ok" => last'.payload.count = 0
            /\ ~RECORDING_ACTIVE'
            /\ RECORDING_BUFFER' = <<>>
       ELSE /\ last'.arg = "None"
            /\ last'.payload.count = 0
            /\ UNCHANGED <<recordingVars, disk>>]_vars

\* a stop wrote two buffered messages and reported them
C13_Witness ==
  /\ last.op = "recording_stop"
  /\ last.result = "ok"
  /\ last.payload.count = 2
  /\ Len(disk[last.arg].messages) = 2
  /\ ~RECORDING_ACTIVE
  /\ RECORDING_BUFFER = <<>>


(***************************************************************************)
(* The recorder and the replayer together, checked under SpecRoundTrip.    *)
(***************************************************************************)
\* the replayer has gone through the whole file that the recording session
\* of arrivals wrote, with no replay filter
RoundTripDone ==
  /\ flushed # "None"
  /\ REPLAY_TASK # 0
  /\ REPLAY_FILE = flushed
  /\ REPLAY_TOPICS = {}
  /\ REPLAY_MESSAGES = disk[flushed].messages
  /\ REPLAY_IDX = Len(REPLAY_MESSAGES)
  /\ tasks[REPLAY_TASK].pc = "done"

\* the arrivals the session was active and unpaused for and whose topic
\* passed its filter
RoutedWhileRecording ==
  SelectSeq(arrivals, LAMBDA a : a.active /\ ~a.paused
                                 /\ (a.filter = {} \/ a.topic \in a.filter))

TopicAndBytes(log) == [i \in 1..Len(log) |-> <<log[i].topic, log[i].payload>>]

\* C14 as stated: the file written at stop, replayed with no filter to its
\* end, is republished as exactly the (topic, payload bytes) that were routed
\* while the recorder was active and unpaused and that passed its filter.
C14_RoundTrip ==
  RoundTripDone => TopicAndBytes(SessionLog) = TopicAndBytes(RoutedWhileRecording)

\* C14, amended: the same for the routed messages whose payload is JSON.
C14_RoundTripOfDecodable ==
  RoundTripDone =>
    TopicAndBytes(SessionLog) =
      TopicAndBytes(SelectSeq(RoutedWhileRecording,
                              LAMBDA a : Decodable(json_loads(a.topic, a.payload))))

\* two messages of different topics, captured a second apart, came back
\* from the file
C14_Witness ==
  /\ RoundTripDone
  /\ Len(SessionLog) = 2
  /\ SessionLog[1].topic # SessionLog[2].topic
  /\ REPLAY_MESSAGES[1].timestamp < REPLAY_MESSAGES[2].timestamp


(***************************************************************************)
(* Properties of the radar tracks, checked under SpecRadar.                *)
(***************************************************************************)
\* the step handled a point detection that reached _update_radar_track
DetectionStep ==
  last'.op = "msg" /\ last'.arg = TOPIC_SENSOR_TRACK /\ last'.result = "applied"

\* the tracks after the association of a detection and before the eviction
Associated(det) ==
  Associate(_radar_tracks_internal, det.distance.v, det.bearing.v, det.heading.v)

\* the tracks that differ from a detection by at most 5 in each axis
Matching(det) ==
  {i \in 1..Len(_radar_tracks_internal) :
     /\ Abs(_radar_tracks_internal[i].distance - det.distance.v) <= 5
     /\ Abs(_radar_tracks_internal[i].bearing - det.bearing.v) <= 5
     /\ Abs(_radar_tracks_internal[i].heading - det.heading.v) <= 5}

\* C15: if some track differs from a point detection by at most 5 in each
\* axis, the first such track in list order, and only that one, is
\* overwritten with the detection and the current time and the number of
\* tracks does not grow; if none does, exactly one new track is appended at
\* the end of the list.
C15_TrackAssociation ==
  [][DetectionStep =>
       LET det == last'.payload
           old == _radar_tracks_internal
           new == Associated(det)
           seen == Track(det.distance.v, det.bearing.v, det.heading.v, now)
       IN  /\ IF Matching(det) # {}
              THEN /\ Len(new) = Len(old)
                   /\ \E k \in Matching(det) :
                        /\ \A j \in Matching(det) : k <= j
                        /\ new[k] = seen
                        /\ \A i \in 1..Len(old) : i # k => new[i] = old[i]
              ELSE new = Append(old, seen)
           /\ Len(_radar_tracks_internal') <= Len(new)
           /\ \A i \in 1..Len(_radar_tracks_internal') :
                \E j \in 1..Len(new) : _radar_tracks_internal'[i] = new[j]]_vars

\* a detection within the tolerances of two tracks overwrote the first and
\* left the second
C15_Witness ==
  /\ last.op = "msg"
  /\ last.arg = TOPIC_SENSOR_TRACK
  /\ last.result = "applied"
  /\ Len(_radar_tracks_internal) = 2
  /\ _radar_tracks_internal[1] =
       Track(last.payload.distance.v, last.payload.bearing.v, last.payload.heading.v, now)
  /\ _radar_tracks_internal[2].distance # _radar_tracks_internal[1].distance
  /\ Abs(_radar_tracks_internal[2].distance - last.payload.distance.v) <= 5
  /\ Abs(_radar_tracks_internal[2].bearing - last.payload.bearing.v) <= 5
  /\ Abs(_radar_tracks_internal[2].heading - last.payload.heading.v) <= 5

\* C16: right after a point-detection update the radar-tracks list of
\* NavigationState is the projection, in order, of the internal tracks whose
\* last-seen is at most 5 s before the update time: none older than 5 s is
\* present, none seen within 5 s is missing.
C16_TrackEviction ==
  [][DetectionStep =>
       LET fresh == SelectSeq(Associated(last'.payload),
                              LAMBDA t : now - t.last_seen <= 5)
       IN  /\ Len(NAV_STATE'.radar_tracks) = Len(fresh)
           /\ \A i \in 1..Len(fresh) :
                /\ NAV_STATE'.radar_tracks[i].distance = fresh[i].distance
                /\ NAV_STATE'.radar_tracks[i].bearing = fresh[i].bearing
                /\ NAV_STATE'.radar_tracks[i].heading = fresh[i].heading
                /\ DOMAIN NAV_STATE'.radar_tracks[i] = {"distance", "bearing", "heading"}
           /\ _radar_tracks_internal' = fresh]_vars

\* after a detection the list holds a track last seen exactly 5 s ago
\* beside the one just seen
C16_Witness ==
  /\ last.op = "msg"
  /\ last.arg = TOPIC_SENSOR_TRACK
  /\ last.result = "applied"
  /\ Len(NAV_STATE.radar_tracks) = 2
  /\ \E i \in 1..2 : _radar_tracks_internal[i].last_seen = now - 5
  /\ \E i \in 1..2 : _radar_tracks_internal[i].last_seen = now

\* C17: a track that was not refreshed for more than 5 s appears in no
\* snapshot the Broadcaster sends after the timeout, also when no further
\* radar message arrives: the radar tracks of NavigationState at the end of
\* a tick are all at most 5 s old.
C17_TracksExpire ==
  last.op = "tick" =>
    \A i \in 1..Len(NAV_STATE.radar_tracks) :
      now - _radar_tracks_internal[i].last_seen <= TRACK_TIMEOUT


(***************************************************************************)
(* Error containment of the ingestion path.                                *)
(***************************************************************************)
\* C18: the message handler returns normally for every topic and every
\* payload, in every reachable state: no handling of a message ends with an
\* exception that leaves _on_message.  Checked under SpecRecorder.
C18_IngestionNeverThrows ==
  last.op = "msg" => last.result # "raised"

\* C20: a routed message whose payload cannot be decoded as JSON leaves
\* NavigationState, the sensor and system health, the radar tracks, the
\* last-message and last-live timestamps and the recording buffer and count
\* unchanged.  Checked under SpecDecode.
C20_UndecodableDropped ==
  [][(MessageStep /\ ~Decodable(last'.payload)) =>
       UNCHANGED <<NAV_STATE, SENSOR_STATES, SYSTEM_STATE, _radar_tracks_internal,
                   LAST_MESSAGE_TIME, ESP32_LAST_MESSAGE_TIME, SENSOR_IMU_LAST_TIME,
                   SENSOR_GPS_LAST_TIME, RECORDING_BUFFER, RECORDING_COUNT>>]_vars

\* text that is no JSON arrived ten seconds after the last decodable
\* message, with a position, a radar track and a recording in place
C20_Witness ==
  /\ last.op = "msg"
  /\ last.result = "undecodable"
  /\ RECORDING_ACTIVE
  /\ Len(RECORDING_BUFFER) = 2
  /\ NAV_STATE.radar_tracks # <<>>
  /\ SENSOR_STATES.gps # "Not initialized"
  /\ LAST_MESSAGE_TIME = Num(0)
  /\ now = TimeStep

\* C19: with the gate inactive, whatever position messages were received
\* before, a well-formed valid live position message is applied to
\* NavigationState and sets the position sensor state to Running.  Checked
\* under Spec.
C19_ValidMessageApplied ==
  [][(/\ last'.op = "msg"
      /\ last'.arg = TOPIC_SENSOR_GPS
      /\ ~SIM_GPS_ACTIVE
      /\ last'.payload = GpsGood)
     => (last'.result = "applied" /\ SENSOR_STATES'.gps = "Running")]_vars

(***************************************************************************)
(* Properties of the fields a message writes, checked under Spec.          *)
(***************************************************************************)

\* C21: an accepted message leaves every NavigationState field it does not
\* carry at its previous value: a position message without latitude or speed
\* leaves latitude and true speed, an attitude message without gyro z-rate
\* leaves the rate of turn as they were.  Checked under Spec.
C21_SparseOverwrite ==
  [][(last'.op = "msg" /\ last'.result = "applied") =>
       /\ (last'.arg \in GpsTopics /\ IsNone(last'.payload.lat))
             => NAV_STATE'.latitude = NAV_STATE.latitude
       /\ (last'.arg \in GpsTopics /\ IsNone(last'.payload.speed))
             => NAV_STATE'.true_speed = NAV_STATE.true_speed
       /\ (last'.arg \in ImuTopics /\ IsNone(last'.payload.gz))
             => NAV_STATE'.rate_of_turn = NAV_STATE.rate_of_turn]_vars

(***************************************************************************)
(* Properties of the observer set, checked under SpecObservers.            *)
(***************************************************************************)

\* C22: a tick attempts a delivery to every observer connected when it
\* starts and prunes only after every delivery ended; the tick removes an
\* observer if and only if that observer's own delivery failed; the outcome
\* of one delivery leaves the outcomes of the others as they were, and after
\* the pruning the Broadcaster is ready for the next tick.
C22_ObserverPruning ==
  /\ [][(~InFlight /\ InFlight') => DOMAIN results' = WEBSOCKETS]_vars
  /\ [][(InFlight /\ ~InFlight') =>
          /\ \A ws \in DOMAIN results : results[ws] \in {"sent", "failed"}
          /\ \A ws \in Observers :
                (ws \in WEBSOCKETS /\ ws \notin WEBSOCKETS')
                  <=> (ws \in WEBSOCKETS /\ ws \in DOMAIN results
                       /\ results[ws] = "failed")]_vars
  /\ []((~InFlight /\ WEBSOCKETS # {}) => ENABLED broadcast_send)
  /\ [][last'.op = "send_json" =>
          \A ws \in DOMAIN results \ {last'.arg} : results'[ws] = results[ws]]_vars

\* a tick ended in which one delivery failed and another succeeded: the first
\* observer is gone, the second is still connected
C22_Witness ==
  /\ last.op = "prune"
  /\ \E a, b \in Observers :
       /\ a \in DOMAIN last.payload.results
       /\ b \in DOMAIN last.payload.results
       /\ last.payload.results[a] = "failed"
       /\ last.payload.results[b] = "sent"
       /\ a \notin WEBSOCKETS
       /\ b \in WEBSOCKETS

(***************************************************************************)
(* Properties of the replay endpoints, checked under SpecReplay.           *)
(***************************************************************************)

\* C23: replay start with an empty file name, with the name of no file or
\* with a file that cannot be read as JSON returns an error and leaves the
\* session (flags, filter, file, loaded messages, index, count, time base),
\* the scheduling loop and what was republished unchanged.
C23_StartFailureClean ==
  [][(/\ last'.op = "replay_start"
      /\ \/ last'.arg = ""
         \/ last'.arg \notin DOMAIN disk
         \/ ~disk[last'.arg].json)
     => /\ last'.result = "error"
        /\ UNCHANGED <<sessionVars, loopVars, published>>]_vars

\* a start with an undecodable file failed while a session was part-way
\* through its recording, its loop asleep
C23_Witness ==
  /\ last.op = "replay_start"
  /\ last.arg = "bad.json"
  /\ last.result = "error"
  /\ REPLAY_ACTIVE
  /\ REPLAY_TASK # 0
  /\ tasks[REPLAY_TASK].pc \in SleepPcs
  /\ REPLAY_IDX > 0
  /\ REPLAY_IDX < Len(REPLAY_MESSAGES)

\* C24: at the end of every broadcast tick at which both sensor states are
\* "Not initialized", the system health is "Initializing", whatever messages
\* (battery messages included) came before.  Checked under Spec.
C24_BothNotInitialized ==
  (/\ last.op = "tick"
   /\ SENSOR_STATES.imu = "Not initialized"
   /\ SENSOR_STATES.gps = "Not initialized")
  => SYSTEM_STATE = "Initializing"

\* C25: when a live message of the sensor arrived while its simulation was
\* running, the stop re-evaluates the sensor state by the timeout/validity
\* rule.  Here the live message is the last thing that happened before the
\* stop, so the rule gives Running if that message is valid and Degraded
\* otherwise.  Checked under Spec.
C25_LiveDuringSimulation ==
  [][(/\ last.op = "msg"
      /\ last.arg = TOPIC_SENSOR_GPS
      /\ last.payload.kind = "obj"
      /\ SIM_GPS_ACTIVE
      /\ last'.op = "sim_gps"
      /\ last'.arg = "STOP")
     => SENSOR_STATES'.gps = HealthOf(GpsValid(last.payload))]_vars

\* C26: what an accepted message writes depends only on messages of the
\* selected origin: two runs that differ in the messages of the other origin
\* write the same values.  In the run without the other origin's messages
\* there is no previous fix of that origin, so a course or a speed that an
\* accepted position message derives is derived from a fix of its own origin.
\* Checked under Spec.
C26_OriginNonInterference ==
  [][(/\ last'.op = "msg"
      /\ last'.arg \in GpsTopics
      /\ last'.result = "applied"
      /\ ~IsNone(_prev_gps)
      /\ _prev_gps'.ts - _prev_gps.ts > 0
      /\ (IsNone(last'.payload.cog) \/ IsNone(last'.payload.speed)))
     => _prev_gps.origin = last'.arg]_vars

(***************************************************************************)
(* Properties of the snapshots, checked under SpecSnapshot.                *)
(***************************************************************************)

\* C27: every snapshot delivered to an observer equals the shared state as
\* it was at one instant between two ingested messages, and the observers
\* served by one tick receive the same snapshot, however the MQTT thread and
\* the Broadcaster interleave.
C27_ConsistentSnapshot ==
  /\ \A ws \in Observers :
       delivered[ws] # NoPayload =>
         Instant(delivered[ws].sensors, delivered[ws].snapshot.last_message_time)
           \in instants
  /\ last.op = "prune" =>
       \A a, b \in DOMAIN last.payload.results : delivered[a] = delivered[b]

(***************************************************************************)
(* Termination of the replay, checked under SpecTerminates.                *)
(***************************************************************************)
\* the session's loop has ended with every loaded message processed
Exhausted ==
  /\ ~REPLAY_ACTIVE
  /\ REPLAY_IDX = Len(REPLAY_MESSAGES)
  /\ REPLAY_TASK \in DOMAIN tasks
  /\ tasks[REPLAY_TASK].pc = "done"

\* the loaded messages whose topic passes the filter
FilterPassing ==
  {n \in 1..Len(REPLAY_MESSAGES) : PassesFilter(REPLAY_MESSAGES[n].topic)}

AtRest(p) ==
  /\ p.ax = Num(0) /\ p.ay = Num(0) /\ p.az = Num(0)
  /\ p.gx = Num(0) /\ p.gy = Num(0) /\ p.gz = Num(0)

\* C29: an accepted attitude sample with zero accelerometer readings and zero
\* gyro rates leaves the estimated-speed field of NavigationState and the
\* integrated heading as they were, so that any number of such samples with
\* increasing timestamps leaves them at the values before the first.
C29_DeadReckoningIdempotence ==
  [][(/\ last'.op = "msg" /\ last'.arg \in ImuTopics /\ last'.result = "applied"
      /\ AtRest(last'.payload))
     => /\ NAV_STATE'.estimated_speed = NAV_STATE.estimated_speed
        /\ _est_heading' = _est_heading]_vars

\* C30: a message a handler gives up on because of a field-level error leaves
\* NavigationState, the sensor health, the last-live timestamps and the
\* previous-fix memory as they were before the message.
C30_AllOrNothing ==
  [][(last'.op = "msg" /\ last'.result = "raised")
     => UNCHANGED <<NAV_STATE, SENSOR_STATES, liveTimeVars, _prev_gps>>]_vars

(***************************************************************************)
(* The schedule of a paused and resumed replay, checked under              *)
(* SpecSchedule.                                                           *)
(***************************************************************************)
\* the newest republication is that of the message before the current one
PreviousRepublished ==
  /\ REPLAY_IDX > 0
  /\ published # <<>>
  /\ published[Len(published)].session = REPLAY_TASK
  /\ published[Len(published)].index = REPLAY_IDX - 1

\* C31: not counting the time spent paused, message i is not republished
\* sooner after message i-1 than timestamp_i - timestamp_(i-1), wherever in
\* the wait for message i the pause and the resume occur.
C31_PausePreservesSchedule ==
  [][(published' # published /\ PreviousRepublished)
     => elapsed >= REPLAY_MESSAGES[REPLAY_IDX + 1].timestamp
                   - REPLAY_MESSAGES[REPLAY_IDX].timestamp]_vars

(***************************************************************************)
(* A simulation start next to a live message, checked under SpecSimStart.  *)
(***************************************************************************)
\* C32: once a live position message and a simulation start of the position
\* sensor have both completed, in whatever interleaving, and before the next
\* tick, the gate is active, the sensor state is Simulated and the last-live
\* timestamp equals the baseline timestamp captured by the start.
C32_StartVersusIngestion ==
  (starting = Started /\ handling = NoPayload)
  => /\ SIM_GPS_ACTIVE
     /\ SENSOR_STATES.gps = "Simulated"
     /\ SENSOR_GPS_LAST_TIME = _BASELINE_LAST_TS.gps

(***************************************************************************)
(* A recording stop next to arriving messages, checked under SpecStopRace. *)
(***************************************************************************)
\* C33: whatever the interleaving of the broker's thread with recording start
\* and stop, every message the recorder accepted during a session (appended
\* to the buffer, counted) is in the file written by the session's stop, and
\* the count that stop reports is the session's message count.
C33_NoMessageLostAtStop ==
  [][(last'.op = "recording_stop" /\ last'.result = "ok" /\ last'.arg # "None")
     => /\ \A i \in DOMAIN RECORDING_BUFFER :
             \E j \in DOMAIN disk'[last'.arg].messages :
               disk'[last'.arg].messages[j] = RECORDING_BUFFER[i]
        /\ last'.payload.count = RECORDING_COUNT]_vars

\* C34: when recording start returns, whatever the session was before, the
\* session is active and not paused, its buffer is empty, its message count
\* is 0, and its filter is the given non-empty list or else all topics
C34_StartResets ==
  [][(last'.op = "recording_start" /\ last'.result = "ok" /\ last'.payload # NoPayload)
     => /\ RECORDING_ACTIVE' /\ ~RECORDING_PAUSED'
        /\ RECORDING_BUFFER' = <<>>
        /\ RECORDING_COUNT' = 0
        /\ RECORDING_TOPICS' =
             (IF last'.payload.topics.t = "list" /\ Len(last'.payload.topics.v) > 0
              THEN {last'.payload.topics.v[i] : i \in DOMAIN last'.payload.topics.v}
              ELSE {})]_vars


(***************************************************************************)
(* The full-list update of the radar tracks, checked under SpecRadar.      *)
(***************************************************************************)
\* the message of the step carried a list of tracks float() accepts
ListCarried(p) == p.kind = "list" /\ Listable(p.tracks)

\* the message of the step carried no list of tracks at all
NothingListed(p) == p.kind \notin {"obj", "list"} \/ (p.kind = "obj" /\ IsNone(p.tracks))

\* C35: after a track-list message with n tracks the internal tracks and the
\* radar tracks of NavigationState are those n tracks in the order of the
\* message, all stamped with the time of receipt, whatever tracks there were
\* before; a message without a track list leaves the tracks as they were
C35_FullListUpdate ==
  [][(last'.op = "msg" /\ last'.arg \in RadarTopics)
     => LET p == last'.payload
        IN  /\ ListCarried(p) =>
                 /\ Len(_radar_tracks_internal') = Len(p.tracks)
                 /\ Len(NAV_STATE'.radar_tracks) = Len(p.tracks)
                 /\ \A i \in 1..Len(p.tracks) :
                      /\ _radar_tracks_internal'[i] =
                           [distance |-> FieldOrZero(p.tracks[i].distance),
                            bearing |-> FieldOrZero(p.tracks[i].bearing),
                            heading |-> FieldOrZero(p.tracks[i].heading),
                            last_seen |-> now']
                      /\ NAV_STATE'.radar_tracks[i] =
                           [distance |-> FieldOrZero(p.tracks[i].distance),
                            bearing |-> FieldOrZero(p.tracks[i].bearing),
                            heading |-> FieldOrZero(p.tracks[i].heading)]
            /\ NothingListed(p) =>
                 /\ _radar_tracks_internal' = _radar_tracks_internal
                 /\ NAV_STATE'.radar_tracks = NAV_STATE.radar_tracks]_vars

\* a list of one track has just become the tracks, a track lifetime or more
\* after the start
C35_Witness ==
  /\ last.op = "msg" /\ last.arg \in RadarTopics /\ last.result = "applied"
  /\ Len(last.payload.tracks) = 1
  /\ now >= TRACK_TIMEOUT
  /\ _radar_tracks_internal = <<Track(10, 0, 0, now)>>
  /\ NAV_STATE.radar_tracks = <<[distance |-> 10, bearing |-> 0, heading |-> 0]>>


(***************************************************************************)
(* The latency of NavigationState, checked under SpecLatency.              *)
(***************************************************************************)
\* C36: after any sequence of position, attitude, battery and link-status
\* messages, whatever their timestamps, the latency of NavigationState is
\* null or at least 0
C36_LatencyNonNegative ==
  IsNone(NAV_STATE.latency) \/ NAV_STATE.latency.v >= 0


(***************************************************************************)
(* The flags of the two sessions, checked under SpecRecorder.              *)
(***************************************************************************)
\* C37: in every reachable state of the recording session and of the replay
\* session the paused flag is true only if the active flag is true
C37_PausedImpliesActive ==
  /\ RECORDING_PAUSED => RECORDING_ACTIVE
  /\ REPLAY_PAUSED => REPLAY_ACTIVE


\* two tracks that one detection could not tell apart
Duplicates(a, b) ==
  /\ Abs(a.distance - b.distance) <= TRACK_DISTANCE_MAX
  /\ Abs(a.bearing - b.bearing) <= TRACK_BEARING_MAX
  /\ Abs(a.heading - b.heading) <= TRACK_HEADING_MAX

\* C38: after any sequence of point detections and full-list updates no two
\* distinct tracks of the list are within the association tolerances of each
\* other in distance, bearing and heading at once
C38_NoDuplicateTracks ==
  \A i, j \in 1..Len(_radar_tracks_internal) :
    i # j => ~Duplicates(_radar_tracks_internal[i], _radar_tracks_internal[j])


(***************************************************************************)
(* The sample times of the GPS simulator, checked under SpecGpsSim.        *)
(***************************************************************************)
\* read_config() and init_sim() have run
Initialised == ~IsNone(neom8n._dt) /\ neom8n._rng

\* C39: sample() before read_config() raises RuntimeError; after
\* initialisation a sample at a time earlier than the previous successful
\* sample raises ValueError and leaves the last-sample time unchanged, an
\* equal or later time succeeds, and after init_sim() a sample at any time
\* succeeds
C39_SampleTimeMonotonic ==
  [][(last'.op = "sample")
     => LET t == last'.payload.t
            previous == neom8n._last_sample_t
        IN  /\ IsNone(neom8n._dt) => last'.result = "RuntimeError"
            /\ (Initialised /\ ~IsNone(previous) /\ t < previous.v)
                 => /\ last'.result = "ValueError"
                    /\ neom8n'._last_sample_t = previous
            /\ (Initialised /\ (IsNone(previous) \/ t >= previous.v))
                 => /\ last'.result = "ok"
                    /\ neom8n'._last_sample_t = Num(t)]_vars

\* C39, with the tolerance of the checks and the internal time: sample()
\* before read_config() raises RuntimeError and changes nothing; once
\* configured, a sample more than 1e-9 s earlier than the previous successful
\* sample raises ValueError and leaves the last-sample time unchanged; any
\* other sample succeeds and its time becomes the last-sample time if it has
\* a motion provider or is not more than 1e-9 s earlier than the internal
\* time, and raises ValueError otherwise; init_sim() clears the last-sample
\* time and sets the internal time to 0
C39_SampleTimeMonotonicWithinTolerance ==
  [][/\ (last'.op = "sample")
        => LET t == last'.payload.t
               previous == neom8n._last_sample_t
               backward == ~IsNone(previous) /\ t < previous.v - Tolerance
               integrable == last'.payload.motion_provider \/ t >= neom8n._t - Tolerance
           IN  /\ IsNone(neom8n._dt)
                    => last'.result = "RuntimeError" /\ neom8n' = neom8n
               /\ (~IsNone(neom8n._dt) /\ backward)
                    => /\ last'.result = "ValueError"
                       /\ neom8n'._last_sample_t = previous
               /\ (~IsNone(neom8n._dt) /\ ~backward /\ integrable)
                    => /\ last'.result = "ok"
                       /\ neom8n'._last_sample_t = Num(t)
               /\ (~IsNone(neom8n._dt) /\ ~backward /\ ~integrable)
                    => /\ last'.result = "ValueError"
                       /\ neom8n'._last_sample_t = previous
     /\ (last'.op = "init_sim" /\ last'.result = "ok")
        => /\ IsNone(neom8n'._last_sample_t)
           /\ neom8n'._t = 0]_vars

\* a sample half a nanosecond earlier than the one the internal model was
\* integrated to has succeeded and is now the last-sample time
C39_Witness ==
  /\ Initialised
  /\ last.op = "sample" /\ last.result = "ok"
  /\ neom8n._t > 0
  /\ neom8n._last_sample_t = Num(neom8n._t - 1)
  /\ last.payload.t = neom8n._t - 1

====
